---------------------------- MODULE Spec2Model ----------------------------
(***************************************************************************)
(* Fleet metrics aggregation engine of hyperion-fleet-manager              *)
(* (src/automation/lambda/metric_aggregator).                              *)
(*                                                                         *)
(* Each component keeps its state in one record variable:                  *)
(*   pub  CloudWatchMetricClient.publish_metrics   (the publisher)         *)
(*   cmp  SSMInventoryClient.get_instance_compliance (compliance client)   *)
(*   qry  CloudWatchMetricClient.query_instance_metrics (utilization)      *)
(*   cyc  handler.lambda_handler (the aggregation cycle)                   *)
(*   agg  metrics.MetricAggregator and the score calculators, called on a  *)
(*        snapshot of the caller's making                                  *)
(*                                                                         *)
(* Conventions.  Python's None / Optional is modelled as a sequence of     *)
(* length 0 (None) or 1 (a value).  A Python list is a TLA+ sequence; the  *)
(* 0-based index i of the code is position i+1 of the sequence.  A boto3   *)
(* ClientError is the record of its response's Error entry, whose Code and *)
(* Message may each be missing.                                            *)
(***************************************************************************)
EXTENDS Integers, Sequences, FiniteSets, TLC

VARIABLES pub, cmp, qry, cyc, agg, con, lim

vars == <<pub, cmp, qry, cyc, agg, con, lim>>

(***************************************************************************)
(* Bounds of the model.                                                    *)
(***************************************************************************)
\* longest list of metric points handed to publish_metrics
MaxMetrics == 45
\* most instance identifiers handed to get_instance_compliance
MaxComplianceInstances == 2
\* most pages list_compliance_items returns for one instance
MaxCompliancePages == 2
\* most compliance items on one page
MaxComplianceItems == 2
\* query_instance_metrics is called with 0..MaxQuerySmall identifiers, or
\* with batch_size - 1 .. batch_size + MaxQueryExtra of them
MaxQuerySmall == 2
MaxQueryExtra == 1
\* most pages get_metric_data reads for one batch of queries
MaxQueryPages == 2
\* most instances of the fleet an aggregation cycle runs on
MaxFleet == 2

(***************************************************************************)
(* Python helpers.                                                         *)
(***************************************************************************)
Min(a, b) == IF a <= b THEN a ELSE b

\* list(range(start, stop, step)) for step > 0
Range(start, stop, step) ==
    IF stop <= start THEN <<>>
    ELSE [k \in 1..((stop - start + step - 1) \div step) |-> start + (k - 1) * step]

\* s[i:j] for 0 <= i <= j (the slice is clipped to the list)
Slice(s, i, j) == SubSeq(s, Min(i, Len(s)) + 1, Min(j, Len(s)))

\* dict.get(key, default) on an optional entry
GetOr(opt, default) == IF Len(opt) = 0 THEN default ELSE opt[1]

(***************************************************************************)
(* botocore ClientError values the backends answer with.                   *)
(***************************************************************************)
ClientErrors ==
    { [Code |-> <<"Throttling">>, Message |-> <<"Rate exceeded">>],
      [Code |-> <<"InternalServiceFault">>, Message |-> <<>>],
      [Code |-> <<>>, Message |-> <<>>] }

error_code(e) == GetOr(e.Code, "Unknown")
error_message(e) == GetOr(e.Message, "str(e)")

(***************************************************************************)
(* metrics.MetricValue and its conversion.                                 *)
(***************************************************************************)
MetricValue(name, value, unit, dimensions, timestamp) ==
    [name |-> name, value |-> value, unit |-> unit,
     dimensions |-> dimensions, timestamp |-> timestamp]

to_cloudwatch_format(m) ==
    [MetricName |-> m.name, Value |-> m.value, Unit |-> m.unit,
     Dimensions |-> m.dimensions, Timestamp |-> m.timestamp]

\* the i-th point of a test list: MetricValue(name=f"TestMetric{i}", value=float(i), unit="Count")
TestMetric(i) == MetricValue(<<"TestMetric", i>>, i, "Count", <<>>, 0)

TestMetrics(n) == [i \in 1..n |-> TestMetric(i - 1)]

(***************************************************************************)
(* CloudWatchMetricClient.publish_metrics                                  *)
(***************************************************************************)
MAX_METRICS_PER_BATCH == 20

NoResult == [kind |-> "none"]
Returned(v) == [kind |-> "return", value |-> v]
Raised(type, message) == [kind |-> "raise", type |-> type, message |-> message]

PubIdle ==
    [pc |-> "idle", metrics |-> <<>>, batches |-> <<>>, batch_index |-> 0,
     published_count |-> 0, calls |-> <<>>, sink |-> <<>>, log |-> <<>>,
     result |-> NoResult]

\* batches = [metrics[i : i + MAX] for i in range(0, len(metrics), MAX)]
BatchesDropRemainder(metrics) ==
    LET starts == Range(0, Len(metrics) - MAX_METRICS_PER_BATCH + 1, MAX_METRICS_PER_BATCH)
    IN  [b \in 1..Len(starts) |-> Slice(metrics, starts[b], starts[b] + MAX_METRICS_PER_BATCH)]

Batches(metrics) ==
    LET starts == Range(0, Len(metrics), MAX_METRICS_PER_BATCH)
    IN  [b \in 1..Len(starts) |-> Slice(metrics, starts[b], starts[b] + MAX_METRICS_PER_BATCH)]

\* entry of publish_metrics: the empty list returns 0 at once, otherwise the
\* batches are cut and the loop starts
PublishStart(metrics) ==
    IF Len(metrics) = 0
    THEN [PubIdle EXCEPT !.pc = "returned", !.result = Returned(0)]
    ELSE [PubIdle EXCEPT !.pc = IF Len(Batches(metrics)) > 0 THEN "loop" ELSE "exit",
                         !.metrics = metrics,
                         !.batches = Batches(metrics)]

\* f"Failed to publish metrics: {error_code} - {error_message}"
PublishErrorMessage(index, e) ==
    <<"Failed to publish metrics: ", error_code(e), " - ", error_message(e)>>

\* the except branch of the loop: log, then raise CloudWatchClientError
PublishFailSwallowed(p, e) ==
    [p EXCEPT !.calls = Append(@, [MetricData |-> [i \in 1..Len(p.batches[p.batch_index + 1]) |->
                                        to_cloudwatch_format(p.batches[p.batch_index + 1][i])],
                                   ok |-> FALSE]),
              !.batch_index = @ + 1,
              !.pc = IF p.batch_index + 1 < Len(p.batches) THEN "loop" ELSE "exit"]

PublishFail(p, e) ==
    [p EXCEPT !.calls = Append(@, [MetricData |-> [i \in 1..Len(p.batches[p.batch_index + 1]) |->
                                        to_cloudwatch_format(p.batches[p.batch_index + 1][i])],
                                   ok |-> FALSE]),
              !.log = Append(@, [msg |-> "Failed to publish metric batch",
                                 batch_index |-> p.batch_index,
                                 error_code |-> error_code(e),
                                 error_message |-> error_message(e)]),
              !.pc = "raised",
              !.result = Raised("CloudWatchClientError",
                                PublishErrorMessage(p.batch_index, e))]

\* the try branch of the loop: one accepted put_metric_data call
PublishOk(p) ==
    LET batch == p.batches[p.batch_index + 1]
        metric_data == [i \in 1..Len(batch) |-> to_cloudwatch_format(batch[i])]
    IN  [p EXCEPT !.calls = Append(@, [MetricData |-> metric_data, ok |-> TRUE]),
                  !.sink = Append(@, metric_data),
                  !.published_count = @ + Len(batch),
                  !.batch_index = @ + 1,
                  !.pc = IF p.batch_index + 1 < Len(p.batches) THEN "loop" ELSE "exit"]

\* after the loop: return published_count
PublishExit(p) == [p EXCEPT !.pc = "returned", !.result = Returned(p.published_count)]

(***************************************************************************)
(* SSMInventoryClient.get_instance_compliance                              *)
(*                                                                         *)
(* Instance identifiers are the numbers 1..n.  A compliance item is its    *)
(* optional Status string.  The paginator requests the pages of one        *)
(* instance one after another, as the for loop over the pages advances.    *)
(***************************************************************************)
COMPLIANT == "COMPLIANT"
NON_COMPLIANT == "NON_COMPLIANT"
UNKNOWN == "UNKNOWN"

\* the Status values the backend puts on an item (or no Status at all)
ComplianceItems ==
    { <<>>, <<"COMPLIANT">>, <<"NON_COMPLIANT">> }

CompliancePages(maxItems) == UNION { [1..k -> ComplianceItems] : k \in 0..maxItems }

\* str.upper() on the Status strings
Upper(str) ==
    CASE str = "non_compliant" -> "NON_COMPLIANT"
      [] str = "compliant" -> "COMPLIANT"
      [] OTHER -> str

CmpIdle ==
    [pc |-> "idle", instance_ids |-> <<>>, idx |-> 0, page |-> 0,
     compliance_map |-> <<>>, requests |-> <<>>, returned |-> <<>>,
     failed |-> <<>>, result |-> NoResult]

\* compliance_map = {iid: UNKNOWN for iid in instance_ids}; the empty list
\* returns the empty map at once
ComplianceStart(instance_ids) ==
    LET n == Len(instance_ids)
        start == [CmpIdle EXCEPT !.instance_ids = instance_ids,
                                 !.compliance_map = [k \in 1..n |-> UNKNOWN],
                                 !.requests = [k \in 1..n |-> 0],
                                 !.returned = [k \in 1..n |-> {}],
                                 !.failed = [k \in 1..n |-> FALSE]]
    IN  IF n = 0
        THEN [start EXCEPT !.pc = "returned", !.result = Returned(<<>>)]
        ELSE [start EXCEPT !.pc = "page", !.idx = 1]

\* for item in page.get("ComplianceItems", []): ... with its break
RECURSIVE ExaminePageLastWins(_, _)
ExaminePageLastWins(current, items) ==
    IF Len(items) = 0 THEN current
    ELSE LET status == Upper(GetOr(Head(items), "UNKNOWN"))
         IN  IF status = "NON_COMPLIANT" THEN NON_COMPLIANT
             ELSE IF status = "COMPLIANT"
                  THEN ExaminePageLastWins(COMPLIANT, Tail(items))
                  ELSE ExaminePageLastWins(current, Tail(items))

RECURSIVE ExaminePage(_, _)
ExaminePage(current, items) ==
    IF Len(items) = 0 THEN current
    ELSE LET status == Upper(GetOr(Head(items), "UNKNOWN"))
         IN  IF status = "NON_COMPLIANT" THEN NON_COMPLIANT
             ELSE IF status = "COMPLIANT"
                  THEN ExaminePage(IF current = UNKNOWN THEN COMPLIANT ELSE current,
                                   Tail(items))
                  ELSE ExaminePage(current, Tail(items))

\* the for loop over instance_ids moves on: next instance, or the return
ComplianceAdvance(c) ==
    IF c.idx < Len(c.instance_ids)
    THEN [c EXCEPT !.idx = @ + 1, !.page = 0]
    ELSE [c EXCEPT !.pc = "exit"]

\* one page of list_compliance_items arrives for the current instance;
\* more says that it carries a NextToken
CompliancePage(c, items, more) ==
    LET k == c.idx
        seen == [c EXCEPT !.requests[k] = @ + 1,
                          !.returned[k] = @ \cup {items[i] : i \in 1..Len(items)},
                          !.compliance_map[k] = ExaminePage(@, items),
                          !.page = @ + 1]
    IN  IF more THEN seen ELSE ComplianceAdvance(seen)

\* a page request of the current instance raises ClientError: the inner
\* except logs a warning and continues with the next instance
ComplianceError(c, e) ==
    LET k == c.idx
    IN  ComplianceAdvance([c EXCEPT !.requests[k] = @ + 1, !.failed[k] = TRUE])

ComplianceExit(c) == [c EXCEPT !.pc = "returned", !.result = Returned(c.compliance_map)]

(***************************************************************************)
(* CloudWatchMetricClient.get_metric_data and query_instance_metrics       *)
(*                                                                         *)
(* The query Id f"m{idx}" is the pair <<"m", idx>>.  The backend answers a *)
(* page request with one result entry per query of the request; which      *)
(* entries carry a value is given by a pattern, and sample is the value    *)
(* they carry.  The dict results is a function whose domain is its keys.   *)
(***************************************************************************)
batch_size == 500

QueryId(idx) == <<"m", idx>>

\* the queries list: one query per instance, Id m{idx}, dimension InstanceId
BuildQueries(instance_ids) ==
    [k \in 1..Len(instance_ids) |-> [Id |-> QueryId(k - 1), InstanceId |-> instance_ids[k]]]

\* which queries the backend has a datapoint for
Patterns == {"all", "odd", "none"}

HasDatapoint(pattern, query) ==
    CASE pattern = "all" -> TRUE
      [] pattern = "odd" -> query.Id[2] % 2 = 1
      [] OTHER -> FALSE

\* response["MetricDataResults"] of one page
PageEntries(batch_queries, pattern, sample) ==
    [j \in 1..Len(batch_queries) |->
        [Id |-> batch_queries[j].Id,
         Values |-> IF HasDatapoint(pattern, batch_queries[j]) THEN <<sample>> ELSE <<>>]]

\* d[k] = v on a dict
DictSet(d, k, v) == IF k \in DOMAIN d THEN [d EXCEPT ![k] = v] ELSE d @@ (k :> v)

QryIdle ==
    [pc |-> "idle", instance_ids |-> <<>>, queries |-> <<>>, i |-> 0, page |-> 0,
     next_token |-> <<>>, all_results |-> <<>>, results |-> <<>>, calls |-> <<>>,
     result |-> NoResult]

\* results = {iid: None for iid in instance_ids}
ResultsInitEmpty(instance_ids) == <<>>

ResultsInit(instance_ids) ==
    [iid \in {instance_ids[k] : k \in 1..Len(instance_ids)} |-> <<>>]

\* one iteration of "for i in range(0, len(queries), batch_size)" starts:
\* get_metric_data is called with queries[i : i + batch_size]
BeginBatch(q, i) ==
    [q EXCEPT !.pc = "page", !.i = i, !.page = 0, !.next_token = <<>>,
              !.all_results = <<>>,
              !.calls = Append(@, [queries |-> Slice(q.queries, i, i + batch_size),
                                   pages |-> <<>>, ok |-> TRUE,
                                   metric_results |-> <<>>])]

\* the loop moves on to the next batch, or the function returns
NextBatch(q) ==
    IF q.i + batch_size < Len(q.queries)
    THEN BeginBatch(q, q.i + batch_size)
    ELSE [q EXCEPT !.pc = "exit"]

QueryStart(instance_ids) ==
    IF Len(instance_ids) = 0
    THEN [QryIdle EXCEPT !.pc = "returned", !.result = Returned(<<>>)]
    ELSE BeginBatch([QryIdle EXCEPT !.instance_ids = instance_ids,
                                    !.queries = BuildQueries(instance_ids),
                                    !.results = ResultsInit(instance_ids)], 0)

\* batch_instance_ids[idx - i] with Python's indexing: a negative index
\* counts from the end, an index outside the list raises IndexError (<<>>)
PyIndexAbsolute(batch_instance_ids, idx, i) ==
    IF 0 <= idx /\ idx < Len(batch_instance_ids) THEN <<batch_instance_ids[idx + 1]>>
    ELSE <<>>

PyIndex(batch_instance_ids, idx, i) ==
    LET k == idx - i
        n == Len(batch_instance_ids)
    IN  IF 0 <= k /\ k < n THEN <<batch_instance_ids[k + 1]>>
        ELSE IF -n <= k /\ k < 0 THEN <<batch_instance_ids[n + k + 1]>>
        ELSE <<>>

\* the body of "for result in metric_results" for one result entry
ApplyResult(results, entry, batch_instance_ids, i) ==
    IF entry.Id[1] # "m" THEN results
    ELSE LET instance_id == PyIndex(batch_instance_ids, entry.Id[2], i)
         IN  IF Len(instance_id) = 0 THEN results
             ELSE IF Len(entry.Values) = 0 THEN results
             ELSE DictSet(results, instance_id[1], <<entry.Values[1]>>)

\* "for result in metric_results" over the entries lo..hi, in list order:
\* first the entries lo..mid, then on their outcome the entries mid+1..hi
\* (halving the range and binding the intermediate dict keeps the
\* evaluation shallow)
RECURSIVE ApplyResults(_, _, _, _, _, _)
ApplyResults(results, metric_results, lo, hi, batch_instance_ids, i) ==
    IF lo > hi THEN results
    ELSE IF lo = hi THEN ApplyResult(results, metric_results[lo], batch_instance_ids, i)
    ELSE LET mid == (lo + hi) \div 2
         IN  CHOOSE out \in
                 { ApplyResults(left, metric_results, mid + 1, hi, batch_instance_ids, i) :
                     left \in {ApplyResults(results, metric_results, lo, mid,
                                            batch_instance_ids, i)} } : TRUE

\* a get_metric_data that returns the entries of its last page only
MetricDataPageLastOnly(q, pattern, sample, token) ==
    LET c == Len(q.calls)
        all == PageEntries(q.calls[c].queries, pattern, sample)
        seen == [q EXCEPT !.calls[c].pages =
                              Append(@, [sent |-> q.next_token, pattern |-> pattern,
                                         sample |-> sample, NextToken |-> token]),
                          !.page = @ + 1,
                          !.all_results = all,
                          !.next_token = token]
    IN  IF Len(token) > 0 THEN seen
        ELSE NextBatch([seen EXCEPT
                 !.calls[c].metric_results = <<all>>,
                 !.results = ApplyResults(@, all, 1, Len(all),
                                 Slice(q.instance_ids, q.i, q.i + batch_size), q.i),
                 !.all_results = <<>>])

\* get_metric_data receives one page; with a NextToken it asks for the next
\* page, without one it returns all_results (kept as metric_results of the
\* call), which query_instance_metrics merges into results before it goes
\* on to the next batch
MetricDataPage(q, pattern, sample, token) ==
    LET c == Len(q.calls)
        all == q.all_results \o PageEntries(q.calls[c].queries, pattern, sample)
        seen == [q EXCEPT !.calls[c].pages =
                              Append(@, [sent |-> q.next_token, pattern |-> pattern,
                                         sample |-> sample, NextToken |-> token]),
                          !.page = @ + 1,
                          !.all_results = all,
                          !.next_token = token]
    IN  IF Len(token) > 0 THEN seen
        ELSE NextBatch([seen EXCEPT
                 !.calls[c].metric_results = <<all>>,
                 !.results = ApplyResults(@, all, 1, Len(all),
                                 Slice(q.instance_ids, q.i, q.i + batch_size), q.i),
                 !.all_results = <<>>])

\* a page request raises ClientError: get_metric_data raises
\* CloudWatchClientError, query_instance_metrics logs a warning and continues
MetricDataError(q, e) ==
    LET c == Len(q.calls)
    IN  NextBatch([q EXCEPT !.calls[c].ok = FALSE, !.all_results = <<>>,
                            !.calls[c].pages =
                                Append(@, [sent |-> q.next_token, pattern |-> "none",
                                           sample |-> 0, NextToken |-> <<>>])])

QueryExit(q) == [q EXCEPT !.pc = "returned", !.result = Returned(q.results)]

(***************************************************************************)
(* Python floats.                                                          *)
(*                                                                         *)
(* A float is the exact rational <<numerator, denominator>> in lowest      *)
(* terms with a positive denominator; round() rounds half to even on that  *)
(* exact value (the binary representation error of a float is not          *)
(* modelled).                                                              *)
(***************************************************************************)
Abs(x) == IF x < 0 THEN -x ELSE x

RECURSIVE Gcd(_, _)
Gcd(a, b) == IF b = 0 THEN a ELSE Gcd(b, a % b)

Rat(n, d) ==
    LET g == Gcd(Abs(n), Abs(d))
        s == IF d < 0 THEN -1 ELSE 1
    IN  <<(s * n) \div g, (s * d) \div g>>

\* float(i)
Float(i) == <<i, 1>>

RAdd(x, y) ==
    LET g == Gcd(x[2], y[2])
        l == (x[2] \div g) * y[2]
    IN  Rat(x[1] * (l \div x[2]) + y[1] * (l \div y[2]), l)

RSub(x, y) == RAdd(x, <<-y[1], y[2]>>)

RMul(x, y) ==
    LET g1 == Gcd(Abs(x[1]), y[2])
        g2 == Gcd(Abs(y[1]), x[2])
    IN  <<(x[1] \div g1) * (y[1] \div g2), (x[2] \div g2) * (y[2] \div g1)>>

\* x / y for y # 0
RDiv(x, y) == RMul(x, IF y[1] < 0 THEN <<-y[2], -y[1]>> ELSE <<y[2], y[1]>>)

RLt(x, y) == x[1] * y[2] < y[1] * x[2]
RLe(x, y) == x[1] * y[2] <= y[1] * x[2]
RMin(x, y) == IF RLe(x, y) THEN x ELSE y
RMax(x, y) == IF RLe(y, x) THEN x ELSE y

\* sum(values) of a list of floats
RECURSIVE RSum(_)
RSum(values) == IF Len(values) = 0 THEN Float(0) ELSE RAdd(Head(values), RSum(Tail(values)))

\* m / d rounded to the nearest integer, ties to the even one (m >= 0, d > 0)
RoundHalfEven(m, d) ==
    LET q == m \div d
        r == m % d
    IN  IF 2 * r < d THEN q
        ELSE IF 2 * r > d THEN q + 1
        ELSE IF q % 2 = 0 THEN q ELSE q + 1

\* round(x, ndigits)
round(x, ndigits) ==
    LET scale == 10 ^ ndigits
        q == x[1] \div x[2]
        r == x[1] % x[2]
    IN  Rat(scale * q + RoundHalfEven(scale * r, x[2]), scale)

\* [f(x) for x in s if keep]: the subsequence of s at the positions in keep
RECURSIVE Filter(_, _, _)
Filter(s, keep, k) ==
    IF k > Len(s) THEN <<>>
    ELSE (IF k \in keep THEN <<s[k]>> ELSE <<>>) \o Filter(s, keep, k + 1)

\* dict.get(key, default)
DictGet(dict, key, default) == IF key \in DOMAIN dict THEN dict[key] ELSE default

(***************************************************************************)
(* config.Thresholds and Config.get_instance_cost                          *)
(***************************************************************************)
CPU_WARNING == 70
CPU_CRITICAL == 90
MEMORY_WARNING == 75
MEMORY_CRITICAL == 90
DISK_WARNING == 80
DISK_CRITICAL == 95
COMPLIANCE_WARNING == 90
COMPLIANCE_CRITICAL == 80
CPU_WEIGHT == Rat(30, 100)
MEMORY_WEIGHT == Rat(25, 100)
DISK_WEIGHT == Rat(20, 100)
COMPLIANCE_WEIGHT == Rat(25, 100)
IDLE_CPU_THRESHOLD == 5
UNDERUTILIZED_CPU_THRESHOLD == 20

cost_per_hour ==
    [ type \in {"t3.micro", "t3.small", "t3.medium", "t3.large", "t3.xlarge",
                "t3.2xlarge", "m5.large", "m5.xlarge", "m5.2xlarge", "m5.4xlarge",
                "r5.large", "r5.xlarge", "r5.2xlarge", "c5.large", "c5.xlarge",
                "c5.2xlarge", "default"} |->
        CASE type = "t3.micro"   -> Rat(104, 10000)
          [] type = "t3.small"   -> Rat(208, 10000)
          [] type = "t3.medium"  -> Rat(416, 10000)
          [] type = "t3.large"   -> Rat(832, 10000)
          [] type = "t3.xlarge"  -> Rat(1664, 10000)
          [] type = "t3.2xlarge" -> Rat(3328, 10000)
          [] type = "m5.large"   -> Rat(96, 1000)
          [] type = "m5.xlarge"  -> Rat(192, 1000)
          [] type = "m5.2xlarge" -> Rat(384, 1000)
          [] type = "m5.4xlarge" -> Rat(768, 1000)
          [] type = "r5.large"   -> Rat(126, 1000)
          [] type = "r5.xlarge"  -> Rat(252, 1000)
          [] type = "r5.2xlarge" -> Rat(504, 1000)
          [] type = "c5.large"   -> Rat(85, 1000)
          [] type = "c5.xlarge"  -> Rat(17, 100)
          [] type = "c5.2xlarge" -> Rat(34, 100)
          [] OTHER               -> Rat(10, 100) ]

get_instance_cost(instance_type) ==
    DictGet(cost_per_hour, instance_type, DictGet(cost_per_hour, "default", Rat(10, 100)))

(***************************************************************************)
(* metrics.InstanceMetrics, metrics.FleetMetrics and the score             *)
(* calculators.                                                            *)
(***************************************************************************)
InstanceMetrics(instance_id, instance_type, availability_zone, state, hourly_cost) ==
    [instance_id |-> instance_id, instance_type |-> instance_type,
     availability_zone |-> availability_zone, state |-> state,
     cpu_utilization |-> <<>>, memory_utilization |-> <<>>,
     disk_utilization |-> <<>>, is_compliant |-> <<>>,
     hourly_cost |-> hourly_cost]

\* FleetMetrics(): every count 0, every float 0.0, no instances
FleetMetrics ==
    [total_instances |-> 0, running_instances |-> 0, stopped_instances |-> 0,
     pending_instances |-> 0, avg_cpu_utilization |-> Float(0),
     avg_memory_utilization |-> Float(0), avg_disk_utilization |-> Float(0),
     compliant_instances |-> 0, non_compliant_instances |-> 0,
     total_hourly_cost |-> Float(0), instance_metrics |-> <<>>]

\* a health that drops in steps at the thresholds
_calculate_utilization_health_stepped(utilization, warning_threshold, critical_threshold) ==
    IF RLe(utilization, Float(warning_threshold)) THEN Float(100)
    ELSE IF RLe(utilization, Float(critical_threshold)) THEN Float(70)
    ELSE Float(30)

_calculate_utilization_health(utilization, warning_threshold, critical_threshold) ==
    IF RLe(utilization, Float(warning_threshold))
    THEN RSub(Float(100),
              RMul(RDiv(utilization, Float(warning_threshold)), Float(30)))
    ELSE IF RLe(utilization, Float(critical_threshold))
    THEN LET ratio == RDiv(RSub(utilization, Float(warning_threshold)),
                           Float(critical_threshold - warning_threshold))
         IN  RSub(Float(70), RMul(ratio, Float(40)))
    ELSE LET ratio == RMin(Float(1), RDiv(RSub(utilization, Float(critical_threshold)),
                                         Float(10)))
         IN  RSub(Float(30), RMul(ratio, Float(30)))

_calculate_compliance_health(fleet_metrics) ==
    LET total_checked == fleet_metrics.compliant_instances
                         + fleet_metrics.non_compliant_instances
    IN  IF total_checked = 0 THEN Float(100)
        ELSE RMul(Rat(fleet_metrics.compliant_instances, total_checked), Float(100))

\* a health score computed for the empty fleet like for any other
FleetHealthScoreOfEmptyFleet(fleet_metrics) ==
    LET cpu_health == _calculate_utilization_health(
                          fleet_metrics.avg_cpu_utilization, CPU_WARNING, CPU_CRITICAL)
        memory_health == _calculate_utilization_health(
                          fleet_metrics.avg_memory_utilization, MEMORY_WARNING,
                          MEMORY_CRITICAL)
        disk_health == _calculate_utilization_health(
                          fleet_metrics.avg_disk_utilization, DISK_WARNING,
                          DISK_CRITICAL)
        compliance_health == _calculate_compliance_health(fleet_metrics)
        health_score == RAdd(RAdd(RAdd(RMul(cpu_health, CPU_WEIGHT),
                                       RMul(memory_health, MEMORY_WEIGHT)),
                                  RMul(disk_health, DISK_WEIGHT)),
                             RMul(compliance_health, COMPLIANCE_WEIGHT))
    IN  round(RMin(Float(100), RMax(Float(0), health_score)), 2)

\* FleetHealthScore.calculate
FleetHealthScore(fleet_metrics) ==
    IF fleet_metrics.total_instances = 0 THEN Float(0)
    ELSE LET cpu_health == _calculate_utilization_health(
                               fleet_metrics.avg_cpu_utilization, CPU_WARNING, CPU_CRITICAL)
             memory_health == _calculate_utilization_health(
                               fleet_metrics.avg_memory_utilization, MEMORY_WARNING,
                               MEMORY_CRITICAL)
             disk_health == _calculate_utilization_health(
                               fleet_metrics.avg_disk_utilization, DISK_WARNING,
                               DISK_CRITICAL)
             compliance_health == _calculate_compliance_health(fleet_metrics)
             health_score == RAdd(RAdd(RAdd(RMul(cpu_health, CPU_WEIGHT),
                                            RMul(memory_health, MEMORY_WEIGHT)),
                                       RMul(disk_health, DISK_WEIGHT)),
                                  RMul(compliance_health, COMPLIANCE_WEIGHT))
         IN  round(RMin(Float(100), RMax(Float(0), health_score)), 2)

\* a compliance score that is 0 for a fleet without compliance data
ComplianceScoreZeroWithoutData(fleet_metrics) ==
    LET total_checked == fleet_metrics.compliant_instances
                         + fleet_metrics.non_compliant_instances
    IN  IF total_checked = 0 THEN Float(0)
        ELSE round(RMul(Rat(fleet_metrics.compliant_instances, total_checked),
                        Float(100)), 2)

\* ComplianceScore.calculate
ComplianceScore(fleet_metrics) ==
    LET total_checked == fleet_metrics.compliant_instances
                         + fleet_metrics.non_compliant_instances
    IN  IF total_checked = 0 THEN Float(100)
        ELSE round(RMul(Rat(fleet_metrics.compliant_instances, total_checked),
                        Float(100)), 2)

\* a cost efficiency score whose classes include their upper thresholds
CostEfficiencyScoreInclusive(fleet_metrics) ==
    IF fleet_metrics.running_instances = 0 THEN Float(0)
    ELSE LET im == fleet_metrics.instance_metrics
             counted == {k \in 1..Len(im) :
                            im[k].state = "running" /\ Len(im[k].cpu_utilization) > 0}
             idle == {k \in counted :
                         RLe(im[k].cpu_utilization[1], Float(IDLE_CPU_THRESHOLD))}
             underutilized == {k \in counted \ idle :
                         RLe(im[k].cpu_utilization[1], Float(UNDERUTILIZED_CPU_THRESHOLD))}
             idle_count == Cardinality(idle)
             underutilized_count == Cardinality(underutilized)
             well_utilized_count == Cardinality(counted) - idle_count - underutilized_count
             total_running == idle_count + underutilized_count + well_utilized_count
         IN  IF total_running = 0 THEN Float(50)
             ELSE LET efficiency_score ==
                          Rat(well_utilized_count * 100 + underutilized_count * 50
                              + idle_count * 10, total_running)
                  IN  round(RMin(Float(100), RMax(Float(0), efficiency_score)), 2)

\* CostEfficiencyScore.calculate
CostEfficiencyScore(fleet_metrics) ==
    IF fleet_metrics.running_instances = 0 THEN Float(0)
    ELSE LET im == fleet_metrics.instance_metrics
             counted == {k \in 1..Len(im) :
                            im[k].state = "running" /\ Len(im[k].cpu_utilization) > 0}
             idle == {k \in counted :
                         RLt(im[k].cpu_utilization[1], Float(IDLE_CPU_THRESHOLD))}
             underutilized == {k \in counted \ idle :
                         RLt(im[k].cpu_utilization[1], Float(UNDERUTILIZED_CPU_THRESHOLD))}
             idle_count == Cardinality(idle)
             underutilized_count == Cardinality(underutilized)
             well_utilized_count == Cardinality(counted) - idle_count - underutilized_count
             total_running == idle_count + underutilized_count + well_utilized_count
         IN  IF total_running = 0 THEN Float(50)
             ELSE LET efficiency_score ==
                          Rat(well_utilized_count * 100 + underutilized_count * 50
                              + idle_count * 10, total_running)
                  IN  round(RMin(Float(100), RMax(Float(0), efficiency_score)), 2)

\* a capacity utilization that divides by the number of all three averages
CapacityUtilizationOverAll(fleet_metrics) ==
    IF fleet_metrics.running_instances = 0 THEN Float(0)
    ELSE LET avgs == <<fleet_metrics.avg_cpu_utilization,
                       fleet_metrics.avg_memory_utilization,
                       fleet_metrics.avg_disk_utilization>>
         IN  round(RDiv(RSum(avgs), Float(3)), 2)

\* CapacityUtilization.calculate
CapacityUtilization(fleet_metrics) ==
    IF fleet_metrics.running_instances = 0 THEN Float(0)
    ELSE LET avgs == <<fleet_metrics.avg_cpu_utilization,
                       fleet_metrics.avg_memory_utilization,
                       fleet_metrics.avg_disk_utilization>>
             used == Filter(avgs, {k \in 1..3 : RLt(Float(0), avgs[k])}, 1)
             metrics_count == Len(used)
             total_utilization == RSum(used)
         IN  IF metrics_count = 0 THEN Float(0)
             ELSE round(RDiv(total_utilization, Float(metrics_count)), 2)

(***************************************************************************)
(* metrics.MetricAggregator.aggregate: the thirteen points of a cycle.     *)
(***************************************************************************)
default_dimensions(env, fleet) ==
    << [Name |-> "Environment", Value |-> env],
       [Name |-> "FleetName", Value |-> fleet] >>

_create_instance_count_metrics(fleet_metrics, dimensions, timestamp) ==
    << MetricValue("InstanceCount", Float(fleet_metrics.total_instances), "Count",
                   dimensions, timestamp),
       MetricValue("RunningInstances", Float(fleet_metrics.running_instances), "Count",
                   dimensions, timestamp),
       MetricValue("StoppedInstances", Float(fleet_metrics.stopped_instances), "Count",
                   dimensions, timestamp),
       MetricValue("PendingInstances", Float(fleet_metrics.pending_instances), "Count",
                   dimensions, timestamp) >>

_create_utilization_metrics(fleet_metrics, dimensions, timestamp) ==
    << MetricValue("CPUUtilization", fleet_metrics.avg_cpu_utilization, "Percent",
                   dimensions, timestamp),
       MetricValue("MemoryUtilization", fleet_metrics.avg_memory_utilization, "Percent",
                   dimensions, timestamp),
       MetricValue("DiskUtilization", fleet_metrics.avg_disk_utilization, "Percent",
                   dimensions, timestamp) >>

\* score points built without the aggregator's dimensions
_create_score_metrics_undimensioned(fleet_metrics, dimensions, timestamp) ==
    << MetricValue("FleetHealthScore", FleetHealthScore(fleet_metrics), "Percent",
                   <<>>, timestamp),
       MetricValue("ComplianceScore", ComplianceScore(fleet_metrics), "Percent",
                   <<>>, timestamp),
       MetricValue("CostEfficiencyScore", CostEfficiencyScore(fleet_metrics), "Percent",
                   <<>>, timestamp),
       MetricValue("CapacityUtilization", CapacityUtilization(fleet_metrics), "Percent",
                   <<>>, timestamp) >>

_create_score_metrics(fleet_metrics, dimensions, timestamp) ==
    << MetricValue("FleetHealthScore", FleetHealthScore(fleet_metrics), "Percent",
                   dimensions, timestamp),
       MetricValue("ComplianceScore", ComplianceScore(fleet_metrics), "Percent",
                   dimensions, timestamp),
       MetricValue("CostEfficiencyScore", CostEfficiencyScore(fleet_metrics), "Percent",
                   dimensions, timestamp),
       MetricValue("CapacityUtilization", CapacityUtilization(fleet_metrics), "Percent",
                   dimensions, timestamp) >>

\* cost points that carry the quotient and the total as they are
_create_cost_metrics_unrounded(fleet_metrics, dimensions, timestamp) ==
    LET cost_per_instance ==
            IF fleet_metrics.running_instances > 0
            THEN RDiv(fleet_metrics.total_hourly_cost,
                      Float(fleet_metrics.running_instances))
            ELSE Float(0)
    IN  << MetricValue("CostPerInstance", cost_per_instance, "None",
                       dimensions, timestamp),
           MetricValue("TotalFleetCost", fleet_metrics.total_hourly_cost, "None",
                       dimensions, timestamp) >>

_create_cost_metrics(fleet_metrics, dimensions, timestamp) ==
    LET cost_per_instance ==
            IF fleet_metrics.running_instances > 0
            THEN RDiv(fleet_metrics.total_hourly_cost,
                      Float(fleet_metrics.running_instances))
            ELSE Float(0)
    IN  << MetricValue("CostPerInstance", round(cost_per_instance, 4), "None",
                       dimensions, timestamp),
           MetricValue("TotalFleetCost", round(fleet_metrics.total_hourly_cost, 4), "None",
                       dimensions, timestamp) >>

aggregate(fleet_metrics, dimensions, timestamp) ==
    _create_instance_count_metrics(fleet_metrics, dimensions, timestamp)
    \o _create_utilization_metrics(fleet_metrics, dimensions, timestamp)
    \o _create_score_metrics(fleet_metrics, dimensions, timestamp)
    \o _create_cost_metrics(fleet_metrics, dimensions, timestamp)

(***************************************************************************)
(* Calls of MetricAggregator.aggregate and of the score calculators on a   *)
(* snapshot the caller constructed.  agg.fleet_metrics is the snapshot     *)
(* object (its content after the calls made so far), agg.calls the calls   *)
(* of aggregate in order, each with the clock reading it took, the content *)
(* of the snapshot it was handed and the list it returned.                 *)
(***************************************************************************)
AggIdle ==
    [pc |-> "idle", aggregator |-> <<>>, fleet_metrics |-> <<>>, calls |-> <<>>,
     scorer |-> "", args |-> <<>>, score |-> <<>>, status |-> <<>>]

\* MetricAggregator(environment, fleet_name), with a snapshot to aggregate
MetricAggregator(a, env, fleet, fleet_metrics) ==
    [a EXCEPT !.pc = "ready",
              !.aggregator = <<[environment |-> env, fleet_name |-> fleet,
                                default_dimensions |-> default_dimensions(env, fleet)]>>,
              !.fleet_metrics = <<fleet_metrics>>]

\* an aggregate that empties the snapshot's observation list as it reads it
AggregateCallConsuming(a, now) ==
    [a EXCEPT !.calls = Append(@, [timestamp |-> now,
                                   snapshot |-> a.fleet_metrics[1],
                                   metrics |-> aggregate(a.fleet_metrics[1],
                                                  a.aggregator[1].default_dimensions,
                                                  now)]),
              !.fleet_metrics[1].instance_metrics = <<>>]

\* aggregator.aggregate(fleet_metrics) with datetime.now() reading now: the
\* snapshot is only read
AggregateCall(a, now) ==
    [a EXCEPT !.calls = Append(@, [timestamp |-> now,
                                   snapshot |-> a.fleet_metrics[1],
                                   metrics |-> aggregate(a.fleet_metrics[1],
                                                  a.aggregator[1].default_dimensions,
                                                  now)])]

\* one call scorer.calculate(fleet_metrics) that returned value
ScoreCall(a, scorer, fleet_metrics, value) ==
    [a EXCEPT !.pc = "scored", !.scorer = scorer,
              !.fleet_metrics = <<fleet_metrics>>, !.score = <<value>>]

\* one call _calculate_utilization_health(utilization, warning, critical)
HealthCall(a, utilization, warning_threshold, critical_threshold) ==
    [a EXCEPT !.pc = "scored", !.scorer = "_calculate_utilization_health",
              !.args = <<utilization, warning_threshold, critical_threshold>>,
              !.score = <<_calculate_utilization_health(utilization, warning_threshold,
                                                        critical_threshold)>>]

(***************************************************************************)
(* The get_status classifiers of the four score calculators.               *)
(***************************************************************************)
HEALTHY == "healthy"
WARNING == "warning"
CRITICAL == "critical"
\* HealthStatus.UNKNOWN (ComplianceStatus has an UNKNOWN of its own)
HealthStatus_UNKNOWN == "unknown"

\* a health classifier for which a score of 0 is critical
FleetHealthScore_get_status_from_zero(score) ==
    IF RLe(Float(80), score) THEN HEALTHY
    ELSE IF RLe(Float(60), score) THEN WARNING
    ELSE IF RLe(Float(0), score) THEN CRITICAL
    ELSE HealthStatus_UNKNOWN

\* FleetHealthScore.get_status
FleetHealthScore_get_status(score) ==
    IF RLe(Float(80), score) THEN HEALTHY
    ELSE IF RLe(Float(60), score) THEN WARNING
    ELSE IF RLt(Float(0), score) THEN CRITICAL
    ELSE HealthStatus_UNKNOWN

\* ComplianceScore.get_status
ComplianceScore_get_status(score) ==
    IF RLe(Float(COMPLIANCE_WARNING), score) THEN HEALTHY
    ELSE IF RLe(Float(COMPLIANCE_CRITICAL), score) THEN WARNING
    ELSE IF RLt(Float(0), score) THEN CRITICAL
    ELSE HealthStatus_UNKNOWN

\* CostEfficiencyScore.get_status
CostEfficiencyScore_get_status(score) ==
    IF RLe(Float(70), score) THEN HEALTHY
    ELSE IF RLe(Float(40), score) THEN WARNING
    ELSE IF RLt(Float(0), score) THEN CRITICAL
    ELSE HealthStatus_UNKNOWN

\* CapacityUtilization.get_status
CapacityUtilization_get_status(score) ==
    IF RLe(Float(20), score) /\ RLe(score, Float(70)) THEN HEALTHY
    ELSE IF \/ RLe(Float(10), score) /\ RLt(score, Float(20))
            \/ RLt(Float(70), score) /\ RLe(score, Float(85)) THEN WARNING
    ELSE IF RLt(Float(85), score) \/ RLt(score, Float(10)) THEN CRITICAL
    ELSE HealthStatus_UNKNOWN

\* scorer.get_status(score)
get_status(scorer, score) ==
    CASE scorer = "FleetHealthScore" -> FleetHealthScore_get_status(score)
      [] scorer = "ComplianceScore" -> ComplianceScore_get_status(score)
      [] scorer = "CostEfficiencyScore" -> CostEfficiencyScore_get_status(score)
      [] scorer = "CapacityUtilization" -> CapacityUtilization_get_status(score)

\* one call scorer.get_status(score)
StatusCall(a, scorer, score) ==
    [a EXCEPT !.pc = "classified", !.scorer = scorer, !.args = <<score>>,
              !.status = <<get_status(scorer, score)>>]

(***************************************************************************)
(* handler.lambda_handler: one aggregation cycle.                          *)
(*                                                                         *)
(* The cycle runs the clients above one after another.  w is the state of  *)
(* the whole program, [cyc, pub, cmp, qry]; an operator below takes it     *)
(* from one backend request to the next.  cyc.trace is the list of the     *)
(* backend requests of the cycle in the order they were issued, each with  *)
(* the instance identifiers it names (for describe_instances: the ones it  *)
(* returned) and its outcome: "ok", "ClientError" or "Exception" (any      *)
(* other exception, e.g. botocore's EndpointConnectionError).              *)
(***************************************************************************)
CycIdle ==
    [pc |-> "idle", fleet |-> <<>>, fetched |-> 0, instances |-> <<>>,
     state_counts |-> <<>>, running_instance_ids |-> <<>>, cpu_metrics |-> <<>>,
     memory_metrics |-> <<>>, disk_metrics |-> <<>>, compliance_data |-> <<>>,
     fleet_metrics |-> <<>>, trace |-> <<>>, result |-> NoResult]

\* Config(): the defaults of ENVIRONMENT and FLEET_NAME
environment == "dev"
fleet_name == "hyperion-fleet"

\* datetime.now(timezone.utc) of the cycle
Timestamp == <<"now">>

Log(w, op, ids, outcome) ==
    [w EXCEPT !.cyc.trace = Append(@, [op |-> op, ids |-> ids, outcome |-> outcome])]

Exception(type, message) == [type |-> type, message |-> message]

\* except (SSMClientError, CloudWatchClientError) of collect_instance_metrics
collect_except(exc) ==
    IF exc.type \in {"SSMClientError", "CloudWatchClientError"}
    THEN Exception("MetricAggregationError", <<"Metric collection failed: ">> \o exc.message)
    ELSE exc

\* except CloudWatchClientError of publish_aggregated_metrics
publish_except(exc) ==
    IF exc.type = "CloudWatchClientError"
    THEN Exception("MetricAggregationError", <<"Failed to publish metrics: ">> \o exc.message)
    ELSE exc

\* the except clauses of lambda_handler
lambda_handler_except_aggregation_only(exc) ==
    IF exc.type = "MetricAggregationError"
    THEN Returned([statusCode |-> 500,
                   body |-> [message |-> "Metric aggregation failed",
                             error |-> exc.message]])
    ELSE Raised(exc.type, exc.message)

lambda_handler_except(exc) ==
    IF exc.type = "MetricAggregationError"
    THEN Returned([statusCode |-> 500,
                   body |-> [message |-> "Metric aggregation failed",
                             error |-> exc.message]])
    ELSE Returned([statusCode |-> 500,
                   body |-> [message |-> "Unexpected error occurred",
                             error |-> exc.message]])

\* an exception reaches lambda_handler: the cycle ends with its response
Abort(w, exc) ==
    [w EXCEPT !.cyc.pc = "done", !.cyc.result = lambda_handler_except(exc)]

\* the response of a completed cycle
Respond(w) ==
    LET fleet_metrics == w.cyc.fleet_metrics[1]
        published_count == w.pub.result.value
    IN  [w EXCEPT !.cyc.pc = "done",
                  !.cyc.result = Returned(
                      [statusCode |-> 200,
                       body |-> [message |-> "Metric aggregation completed successfully",
                                 fleet_name |-> fleet_name,
                                 environment |-> environment,
                                 instances_processed |-> fleet_metrics.total_instances,
                                 running_instances |-> fleet_metrics.running_instances,
                                 metrics_published |-> published_count,
                                 fleet_health_score |-> FleetHealthScore(fleet_metrics),
                                 compliance_score |-> ComplianceScore(fleet_metrics)]])]

\* publish_aggregated_metrics after a step of publish_metrics
PublishContinue(w) ==
    IF w.pub.pc = "exit" THEN Respond([w EXCEPT !.pub = PublishExit(@)])
    ELSE IF w.pub.pc = "returned" THEN Respond(w)
    ELSE IF w.pub.pc = "raised"
    THEN Abort(w, publish_except(Exception(w.pub.result.type, w.pub.result.message)))
    ELSE w

\* publish_aggregated_metrics: aggregate, then publish_metrics
StartPublish(w, fleet_metrics) ==
    PublishContinue(
        [w EXCEPT !.cyc.pc = "publish",
                  !.cyc.fleet_metrics = <<fleet_metrics>>,
                  !.pub = PublishStart(aggregate(fleet_metrics,
                                                 default_dimensions(environment, fleet_name),
                                                 Timestamp))])

\* a list in which a missing value stands as 0.0
RECURSIVE PresentOrZero(_)
PresentOrZero(values) ==
    IF Len(values) = 0 THEN <<>>
    ELSE (IF Len(Head(values)) = 0 THEN <<Float(0)>> ELSE Head(values))
            \o PresentOrZero(Tail(values))

\* [v for v in values if v is not None]
RECURSIVE Present(_)
Present(values) == IF Len(values) = 0 THEN <<>> ELSE Head(values) \o Present(Tail(values))

\* round(sum(values) / len(values), 2)
Average(values) == round(RDiv(RSum(values), Float(Len(values))), 2)

_aggregate_instance_metrics(instances, state_counts, compliance_data) ==
    LET running == {k \in 1..Len(instances) : instances[k].state = "running"}
        running_instances == Filter(instances, running, 1)
        cpu_values == Present([k \in 1..Len(running_instances) |->
                                  running_instances[k].cpu_utilization])
        memory_values == Present([k \in 1..Len(running_instances) |->
                                     running_instances[k].memory_utilization])
        disk_values == Present([k \in 1..Len(running_instances) |->
                                   running_instances[k].disk_utilization])
        costs == [k \in 1..Len(running_instances) |-> running_instances[k].hourly_cost]
        some == Len(running_instances) > 0
    IN  [total_instances |-> Len(instances),
         running_instances |-> DictGet(state_counts, "running", 0),
         stopped_instances |-> DictGet(state_counts, "stopped", 0),
         pending_instances |-> DictGet(state_counts, "pending", 0),
         avg_cpu_utilization |->
             IF some /\ Len(cpu_values) > 0 THEN Average(cpu_values) ELSE Float(0),
         avg_memory_utilization |->
             IF some /\ Len(memory_values) > 0 THEN Average(memory_values) ELSE Float(0),
         avg_disk_utilization |->
             IF some /\ Len(disk_values) > 0 THEN Average(disk_values) ELSE Float(0),
         compliant_instances |->
             Cardinality({iid \in DOMAIN compliance_data : compliance_data[iid] = COMPLIANT}),
         non_compliant_instances |->
             Cardinality({iid \in DOMAIN compliance_data :
                             compliance_data[iid] = NON_COMPLIANT}),
         total_hourly_cost |-> IF some THEN RSum(costs) ELSE Float(0),
         instance_metrics |-> instances]

\* "for instance in instances": the collected data is put on the instance
UpdateInstance(instance, cpu_metrics, memory_metrics, disk_metrics, compliance_data) ==
    LET iid == instance.instance_id
    IN  [instance EXCEPT
            !.cpu_utilization = IF iid \in DOMAIN cpu_metrics THEN cpu_metrics[iid] ELSE @,
            !.memory_utilization =
                IF iid \in DOMAIN memory_metrics THEN memory_metrics[iid] ELSE @,
            !.disk_utilization =
                IF iid \in DOMAIN disk_metrics THEN disk_metrics[iid] ELSE @,
            !.is_compliant =
                IF iid \in DOMAIN compliance_data
                THEN <<compliance_data[iid] = COMPLIANT>> ELSE @]

\* the dict get_instance_compliance returned, keyed by instance identifier
ComplianceDict(c) ==
    [iid \in {c.instance_ids[k] : k \in 1..Len(c.instance_ids)} |->
        c.result.value[CHOOSE k \in 1..Len(c.instance_ids) : c.instance_ids[k] = iid]]

\* collect_instance_metrics once compliance_data is there
AfterCompliance(w) ==
    LET c == w.cyc
        compliance_data == ComplianceDict(w.cmp)
        instances == [k \in 1..Len(c.instances) |->
                         UpdateInstance(c.instances[k], c.cpu_metrics, c.memory_metrics,
                                        c.disk_metrics, compliance_data)]
    IN  StartPublish([w EXCEPT !.cyc.compliance_data = compliance_data,
                               !.cyc.instances = instances],
                     _aggregate_instance_metrics(instances, c.state_counts, compliance_data))

ComplianceContinue(w) ==
    IF w.cmp.pc = "exit" THEN AfterCompliance([w EXCEPT !.cmp = ComplianceExit(@)])
    ELSE IF w.cmp.pc = "returned" THEN AfterCompliance(w)
    ELSE w

\* compliance_data = ssm_client.get_instance_compliance(running_instance_ids)
StartCompliance(w) ==
    ComplianceContinue([w EXCEPT !.cyc.pc = "compliance",
                                 !.cmp = ComplianceStart(w.cyc.running_instance_ids)])

AfterDisk(w) == StartCompliance([w EXCEPT !.cyc.disk_metrics = w.qry.result.value])

\* disk_metrics = cloudwatch_client.query_cw_agent_metrics(...)
StartDisk(w) ==
    LET called == [w EXCEPT !.cyc.pc = "disk",
                            !.qry = QueryStart(w.cyc.running_instance_ids)]
    IN  IF called.qry.pc = "returned" THEN AfterDisk(called) ELSE called

AfterMemory(w) == StartDisk([w EXCEPT !.cyc.memory_metrics = w.qry.result.value])

\* memory_metrics = cloudwatch_client.query_cw_agent_metrics(...)
StartMemory(w) ==
    LET called == [w EXCEPT !.cyc.pc = "memory",
                            !.qry = QueryStart(w.cyc.running_instance_ids)]
    IN  IF called.qry.pc = "returned" THEN AfterMemory(called) ELSE called

AfterCpu(w) == StartMemory([w EXCEPT !.cyc.cpu_metrics = w.qry.result.value])

\* cpu_metrics = {}; if running_instance_ids: cpu_metrics = query_instance_metrics(...)
StartCpu(w) ==
    IF Len(w.cyc.running_instance_ids) > 0
    THEN LET called == [w EXCEPT !.cyc.pc = "cpu",
                                 !.qry = QueryStart(w.cyc.running_instance_ids)]
         IN  IF called.qry.pc = "returned" THEN AfterCpu(called) ELSE called
    ELSE StartMemory([w EXCEPT !.cyc.cpu_metrics = <<>>])

\* collect_instance_metrics after a step of query_instance_metrics
QueryContinue(w) ==
    IF w.qry.pc # "exit" THEN w
    ELSE LET returned == [w EXCEPT !.qry = QueryExit(@)]
         IN  CASE w.cyc.pc = "cpu" -> AfterCpu(returned)
               [] w.cyc.pc = "memory" -> AfterMemory(returned)
               [] OTHER -> AfterDisk(returned)

\* str.lower() on the state names
Lower(str) ==
    CASE str = "RUNNING" -> "running"
      [] str = "STOPPED" -> "stopped"
      [] str = "PENDING" -> "pending"
      [] OTHER -> str

\* counts that take a terminated instance for a stopped one
get_instance_counts_by_state_folded(instances) ==
    LET fold(state) == IF Lower(state) = "terminated" THEN "stopped" ELSE Lower(state)
        preset == {"running", "stopped", "pending", "stopping", "terminated",
                   "shutting-down"}
    IN  [state \in preset |->
            Cardinality({k \in 1..Len(instances) : fold(instances[k].state) = state})]

get_instance_counts_by_state(instances) ==
    LET preset == {"running", "stopped", "pending", "stopping", "terminated",
                   "shutting-down"}
        seen == {Lower(instances[k].state) : k \in 1..Len(instances)}
    IN  [state \in preset \cup seen |->
            Cardinality({k \in 1..Len(instances) : Lower(instances[k].state) = state})]

\* [i.instance_id for i in instances if i.state == "running"]
running_instance_indexes(instances) ==
    [k \in 1..Cardinality({j \in 1..Len(instances) : instances[j].state = "running"}) |-> k]

running_instance_ids(instances) ==
    LET running == Filter(instances,
                          {k \in 1..Len(instances) : instances[k].state = "running"}, 1)
    IN  [k \in 1..Len(running) |-> running[k].instance_id]

\* collect_instance_metrics once get_fleet_instances has returned
AfterInventory(w) ==
    LET instances == w.cyc.instances
    IN  IF Len(instances) = 0 THEN StartPublish(w, FleetMetrics)
        ELSE StartCpu([w EXCEPT
                 !.cyc.state_counts = get_instance_counts_by_state(instances),
                 !.cyc.running_instance_ids = running_instance_ids(instances)])

\* an observation that carries the rate of its class in every state
FleetInstanceAlwaysCosted(instance) ==
    InstanceMetrics(instance.InstanceId, instance.InstanceType,
                    instance.AvailabilityZone, instance.State,
                    get_instance_cost(instance.InstanceType))

\* one instance of a describe_instances page becomes an InstanceMetrics
FleetInstance(instance) ==
    InstanceMetrics(instance.InstanceId, instance.InstanceType,
                    instance.AvailabilityZone, instance.State,
                    IF instance.State = "running"
                    THEN get_instance_cost(instance.InstanceType) ELSE Float(0))

\* get_fleet_instances receives a page with the next count instances of the
\* fleet; after the last page it returns
InventoryPage(w, count) ==
    LET c == w.cyc
        page == SubSeq(c.fleet, c.fetched + 1, c.fetched + count)
        seen == Log([w EXCEPT !.cyc.fetched = @ + count,
                              !.cyc.instances =
                                  @ \o [k \in 1..count |-> FleetInstance(page[k])]],
                    "describe_instances",
                    {page[k].InstanceId : k \in 1..count}, "ok")
    IN  IF c.fetched + count < Len(c.fleet) THEN seen ELSE AfterInventory(seen)

\* a page request of get_fleet_instances raises ClientError
InventoryFailSwallowed(w, e) ==
    AfterInventory(Log(w, "describe_instances", {}, "ClientError"))

InventoryFail(w, e) ==
    Abort(Log(w, "describe_instances", {}, "ClientError"),
          collect_except(Exception("SSMClientError",
              <<"Failed to get fleet instances: ", error_code(e), " - ",
                error_message(e)>>)))

\* the backend request the cycle is about to issue
PendingRequest(w) ==
    CASE w.cyc.pc = "inventory" -> [op |-> "describe_instances", ids |-> {}]
      [] w.cyc.pc \in {"cpu", "memory", "disk"} ->
            [op |-> "get_metric_data",
             ids |-> {w.qry.calls[Len(w.qry.calls)].queries[j].InstanceId :
                         j \in 1..Len(w.qry.calls[Len(w.qry.calls)].queries)}]
      [] w.cyc.pc = "compliance" ->
            [op |-> "list_compliance_items", ids |-> {w.cmp.instance_ids[w.cmp.idx]}]
      [] OTHER -> [op |-> "put_metric_data", ids |-> {}]

LogRequest(w, outcome) == Log(w, PendingRequest(w).op, PendingRequest(w).ids, outcome)

\* the pending request raises an exception that no client handles: it
\* passes collect_instance_metrics or publish_aggregated_metrics unchanged
RequestRaises(w, exc) ==
    Abort(LogRequest(w, "Exception"),
          IF w.cyc.pc = "publish" THEN publish_except(exc) ELSE collect_except(exc))

-----------------------------------------------------------------------------
(***************************************************************************)
(* PublishSpec: one call of publish_metrics on a list of 0..MaxMetrics     *)
(* points against a sink that accepts or rejects every write.              *)
(***************************************************************************)
(***************************************************************************)
(* api.auth.RateLimiter                                                    *)
(*                                                                         *)
(* A request is its x-api-key header, its x-forwarded-for header (a list   *)
(* of addresses) and the host of its client, each optional.  The readings  *)
(* of time.monotonic() are integers that never decrease.  lim.calls is the *)
(* history of the calls: the key, the reading of the clock and the status  *)
(* code of the HTTPException raised, if any.                                *)
(***************************************************************************)
LimIdle ==
    [pc |-> "idle", max_requests |-> 0, window_seconds |-> 0, _hits |-> <<>>,
     clock |-> 0, calls |-> <<>>]

\* RateLimiter(max_requests, window_seconds)
RateLimiter(l, max_requests, window_seconds) ==
    [l EXCEPT !.pc = "ready", !.max_requests = max_requests,
              !.window_seconds = window_seconds, !._hits = <<>>]

_client_key(request) ==
    IF GetOr(request.x_api_key, "") # ""
    THEN <<"apikey", request.x_api_key[1]>>
    ELSE IF Len(request.x_forwarded_for) > 0 /\ Len(request.x_forwarded_for[1]) > 0
    THEN <<"ip", request.x_forwarded_for[1][1]>>
    ELSE <<"ip", GetOr(request.client, "unknown")>>

\* a limiter that keeps the time of a rejected request as well
RateLimiterCallCountingRejected(l, request, now) ==
    LET key == _client_key(request)
        window_start == now - l.window_seconds
        kept == SelectSeq(DictGet(l._hits, key, <<>>), LAMBDA t : t > window_start)
        limited == Len(kept) >= l.max_requests
    IN  [l EXCEPT !.clock = now,
                  !._hits = DictSet(l._hits, key, Append(kept, now)),
                  !.calls = Append(@, [key |-> key, now |-> now,
                                       status_code |-> IF limited THEN <<429>> ELSE <<>>])]

\* RateLimiter.__call__(request) when time.monotonic() reads now
RateLimiterCall(l, request, now) ==
    LET key == _client_key(request)
        window_start == now - l.window_seconds
        kept == SelectSeq(DictGet(l._hits, key, <<>>), LAMBDA t : t > window_start)
        limited == Len(kept) >= l.max_requests
    IN  [l EXCEPT !.clock = now,
                  !._hits = DictSet(l._hits, key,
                                    IF limited THEN kept ELSE Append(kept, now)),
                  !.calls = Append(@, [key |-> key, now |-> now,
                                       status_code |-> IF limited THEN <<429>> ELSE <<>>])]

\* two invocations of lambda_handler that have not started, and the sink
\* backend they both write to
ConIdle ==
    [worlds |-> [i \in 1..2 |-> [cyc |-> CycIdle, pub |-> PubIdle,
                                 cmp |-> CmpIdle, qry |-> QryIdle]],
     store |-> <<>>]

Idle ==
    /\ pub = PubIdle
    /\ cmp = CmpIdle
    /\ qry = QryIdle
    /\ cyc = CycIdle
    /\ agg = AggIdle
    /\ con = ConIdle
    /\ lim = LimIdle

publish_metrics ==
    /\ pub.pc = "idle"
    /\ \E n \in 0..MaxMetrics : pub' = PublishStart(TestMetrics(n))

put_metric_data_ok ==
    /\ pub.pc = "loop"
    /\ pub' = PublishOk(pub)

put_metric_data_error ==
    /\ pub.pc = "loop"
    /\ \E e \in ClientErrors : pub' = PublishFail(pub, e)

publish_return ==
    /\ pub.pc = "exit"
    /\ pub' = PublishExit(pub)

PublishNext ==
    /\ \/ publish_metrics
       \/ put_metric_data_ok
       \/ put_metric_data_error
       \/ publish_return
    /\ UNCHANGED <<cmp, qry, cyc, agg, con, lim>>

PublishSpec == Idle /\ [][PublishNext]_vars

-----------------------------------------------------------------------------
(***************************************************************************)
(* ComplianceSpec: one call of get_instance_compliance on the instances    *)
(* 1..n against a backend that answers every page request with a page of   *)
(* items, with or without a NextToken, or with a ClientError.              *)
(***************************************************************************)
get_instance_compliance ==
    /\ cmp.pc = "idle"
    /\ \E n \in 0..MaxComplianceInstances :
          cmp' = ComplianceStart([k \in 1..n |-> k])

list_compliance_items_page ==
    /\ cmp.pc = "page"
    /\ \E items \in CompliancePages(MaxComplianceItems) :
       \E more \in {b \in BOOLEAN : b => cmp.page + 1 < MaxCompliancePages} :
          cmp' = CompliancePage(cmp, items, more)

list_compliance_items_error ==
    /\ cmp.pc = "page"
    /\ \E e \in ClientErrors : cmp' = ComplianceError(cmp, e)

compliance_return ==
    /\ cmp.pc = "exit"
    /\ cmp' = ComplianceExit(cmp)

ComplianceNext ==
    /\ \/ get_instance_compliance
       \/ list_compliance_items_page
       \/ list_compliance_items_error
       \/ compliance_return
    /\ UNCHANGED <<pub, qry, cyc, agg, con, lim>>

ComplianceSpec == Idle /\ [][ComplianceNext]_vars

-----------------------------------------------------------------------------
(***************************************************************************)
(* QuerySpec: one call of query_instance_metrics on the instances 1..n     *)
(* against a backend that answers every page request of get_metric_data    *)
(* with a page of results, with or without a NextToken, or with a          *)
(* ClientError.  The sample on page p of a batch is SampleOnPage(p).       *)
(***************************************************************************)
QuerySizes ==
    (0..MaxQuerySmall) \cup ((batch_size - 1)..(batch_size + MaxQueryExtra))

\* the backend delivers the samples newest first: the sample on page p is
\* the p-th newest one, SampleOnPage(1) the newest of all
SampleOnPage(p) == 10 * p

NextTokens(page) ==
    {<<>>} \cup (IF page + 1 < MaxQueryPages THEN {<<<<"token", page + 1>>>>} ELSE {})

query_instance_metrics ==
    /\ qry.pc = "idle"
    /\ \E n \in QuerySizes : qry' = QueryStart([k \in 1..n |-> k])

get_metric_data_page ==
    /\ qry.pc = "page"
    /\ \E pattern \in Patterns :
       \E token \in NextTokens(qry.page) :
          qry' = MetricDataPage(qry, pattern, SampleOnPage(qry.page + 1), token)

get_metric_data_error ==
    /\ qry.pc = "page"
    /\ \E e \in ClientErrors : qry' = MetricDataError(qry, e)

query_return ==
    /\ qry.pc = "exit"
    /\ qry' = QueryExit(qry)

QueryNext ==
    /\ \/ query_instance_metrics
       \/ get_metric_data_page
       \/ get_metric_data_error
       \/ query_return
    /\ UNCHANGED <<pub, cmp, cyc, agg, con, lim>>

QuerySpec == Idle /\ [][QueryNext]_vars

\* query_instance_metrics runs sequentially: every request to the backend is
\* eventually answered, by an error or by a page, and a finished loop
\* returns; a backend that eventually answers without a token is one that
\* hands out at most MaxQueryPages pages (NextTokens)
QueryLiveSpec ==
    /\ QuerySpec
    /\ WF_qry(get_metric_data_error \/ get_metric_data_page)
    /\ WF_qry(query_return)

-----------------------------------------------------------------------------
(***************************************************************************)
(* CycleSpec: one invocation of lambda_handler on a fleet of 0..MaxFleet   *)
(* instances.  The inventory backend delivers the fleet in pages; every    *)
(* backend request of the cycle is answered, raises ClientError, or raises *)
(* another exception.  Each utilization batch is answered with one page    *)
(* and each compliance lookup with one page of at most one item.           *)
(***************************************************************************)
World == [cyc |-> cyc, pub |-> pub, cmp |-> cmp, qry |-> qry]

Becomes(w) ==
    /\ cyc' = w.cyc
    /\ pub' = w.pub
    /\ cmp' = w.cmp
    /\ qry' = w.qry
    /\ UNCHANGED <<agg, con, lim>>

InstanceStates == {"running", "stopped", "pending", "terminated"}

InstanceTypes == <<"t3.large", "x9.custom", "m5.xlarge">>

\* the k-th instance of the fleet, as describe_instances reports it
FleetMember(k, state) ==
    [InstanceId |-> 100 + k,
     InstanceType |-> InstanceTypes[((k - 1) % Len(InstanceTypes)) + 1],
     State |-> state,
     AvailabilityZone |-> "us-east-1a"]

Fleets ==
    UNION { { [k \in 1..n |-> FleetMember(k, states[k])] :
                states \in [1..n -> InstanceStates] } : n \in 0..MaxFleet }

\* how many instances the next page may hold
PageSizes(remaining) == IF remaining = 0 THEN {0} ELSE 1..remaining

CyclePatterns == {"all", "odd"}

\* the datapoint the backend has for a metric
CycleSample(stage) ==
    CASE stage = "cpu" -> Float(12)
      [] stage = "memory" -> Rat(80125, 1000)
      [] OTHER -> Float(96)

lambda_handler ==
    /\ cyc.pc = "idle"
    /\ \E fleet \in Fleets :
          Becomes(Log([World EXCEPT !.cyc.pc = "inventory", !.cyc.fleet = fleet],
                      "get_config", {}, "ok"))

get_config_raises ==
    /\ cyc.pc = "idle"
    /\ Becomes(Abort(Log(World, "get_config", {}, "Exception"),
                     Exception("ValueError", <<"invalid literal for int()">>)))

describe_instances_page ==
    /\ cyc.pc = "inventory"
    /\ \E count \in PageSizes(Len(cyc.fleet) - cyc.fetched) :
          Becomes(InventoryPage(World, count))

describe_instances_error ==
    /\ cyc.pc = "inventory"
    /\ \E e \in ClientErrors : Becomes(InventoryFail(World, e))

cycle_get_metric_data_page ==
    /\ cyc.pc \in {"cpu", "memory", "disk"}
    /\ \E pattern \in CyclePatterns :
          Becomes(QueryContinue([LogRequest(World, "ok") EXCEPT
                      !.qry = MetricDataPage(@, pattern, CycleSample(cyc.pc), <<>>)]))

cycle_get_metric_data_error ==
    /\ cyc.pc \in {"cpu", "memory", "disk"}
    /\ \E e \in ClientErrors :
          Becomes(QueryContinue([LogRequest(World, "ClientError") EXCEPT
                      !.qry = MetricDataError(@, e)]))

cycle_list_compliance_items_page ==
    /\ cyc.pc = "compliance"
    /\ \E items \in CompliancePages(1) :
          Becomes(ComplianceContinue([LogRequest(World, "ok") EXCEPT
                      !.cmp = CompliancePage(@, items, FALSE)]))

cycle_list_compliance_items_error ==
    /\ cyc.pc = "compliance"
    /\ \E e \in ClientErrors :
          Becomes(ComplianceContinue([LogRequest(World, "ClientError") EXCEPT
                      !.cmp = ComplianceError(@, e)]))

cycle_put_metric_data_ok ==
    /\ cyc.pc = "publish"
    /\ Becomes(PublishContinue([LogRequest(World, "ok") EXCEPT !.pub = PublishOk(@)]))

cycle_put_metric_data_error ==
    /\ cyc.pc = "publish"
    /\ \E e \in ClientErrors :
          Becomes(PublishContinue([LogRequest(World, "ClientError") EXCEPT
                      !.pub = PublishFail(@, e)]))

request_raises ==
    /\ cyc.pc \in {"inventory", "cpu", "memory", "disk", "compliance", "publish"}
    /\ Becomes(RequestRaises(World,
                   Exception("EndpointConnectionError",
                             <<"Could not connect to the endpoint URL">>)))

CycleNext ==
    \/ lambda_handler
    \/ get_config_raises
    \/ describe_instances_page
    \/ describe_instances_error
    \/ cycle_get_metric_data_page
    \/ cycle_get_metric_data_error
    \/ cycle_list_compliance_items_page
    \/ cycle_list_compliance_items_error
    \/ cycle_put_metric_data_ok
    \/ cycle_put_metric_data_error
    \/ request_raises

CycleSpec == Idle /\ [][CycleNext]_vars

(***************************************************************************)
(* ConcurrentSpec: two invocations of lambda_handler that overlap.  Each   *)
(* invocation has its own Config, clients and aggregator (they are created *)
(* inside lambda_handler); the invocations meet only in the backends.      *)
(* The sink backend keeps every accepted put_metric_data call with the     *)
(* invocation that made it.  An invocation sees a fleet of one instance;   *)
(* a request other than a utilization or compliance query may also fail    *)
(* with an exception that no client handles.                               *)
(***************************************************************************)
ConcurrentFleets ==
    { <<FleetMember(1, "running")>>, <<FleetMember(1, "stopped")>> }

ConcurrentErrors == { [Code |-> <<"Throttling">>, Message |-> <<"Rate exceeded">>] }

\* the answers of the utilization and compliance backends: every queried
\* instance has a datapoint; no finding or one non-compliant finding
ConcurrentPatterns == {"all"}

ConcurrentPages == { <<>>, << <<"NON_COMPLIANT">> >> }

\* the states one step of an invocation in state w can lead to: a response
\* to its pending backend request, or an exception raised for it
CycleSteps(w) ==
    LET pc == w.cyc.pc
        raises == {RequestRaises(w, Exception("EndpointConnectionError",
                                    <<"Could not connect to the endpoint URL">>))}
    IN  CASE pc = "idle" ->
               {Log([w EXCEPT !.cyc.pc = "inventory", !.cyc.fleet = fleet],
                    "get_config", {}, "ok") : fleet \in ConcurrentFleets}
               \cup {Abort(Log(w, "get_config", {}, "Exception"),
                           Exception("ValueError", <<"invalid literal for int()">>))}
          [] pc = "inventory" ->
               {InventoryPage(w, count) :
                   count \in PageSizes(Len(w.cyc.fleet) - w.cyc.fetched)}
               \cup {InventoryFail(w, e) : e \in ConcurrentErrors} \cup raises
          [] pc \in {"cpu", "memory", "disk"} ->
               {QueryContinue([LogRequest(w, "ok") EXCEPT
                    !.qry = MetricDataPage(@, pattern, CycleSample(pc), <<>>)]) :
                   pattern \in ConcurrentPatterns}
               \cup {QueryContinue([LogRequest(w, "ClientError") EXCEPT
                         !.qry = MetricDataError(@, e)]) : e \in ConcurrentErrors}
          [] pc = "compliance" ->
               {ComplianceContinue([LogRequest(w, "ok") EXCEPT
                    !.cmp = CompliancePage(@, items, FALSE)]) :
                   items \in ConcurrentPages}
               \cup {ComplianceContinue([LogRequest(w, "ClientError") EXCEPT
                         !.cmp = ComplianceError(@, e)]) : e \in ConcurrentErrors}
          [] pc = "publish" ->
               {PublishContinue([LogRequest(w, "ok") EXCEPT !.pub = PublishOk(@)])}
               \cup {PublishContinue([LogRequest(w, "ClientError") EXCEPT
                         !.pub = PublishFail(@, e)]) : e \in ConcurrentErrors}
               \cup raises
          [] OTHER -> {}

\* the writes the sink accepted between two states of an invocation
Written(i, w, n) ==
    [k \in 1..(Len(n.pub.sink) - Len(w.pub.sink)) |->
        [cycle |-> i, MetricData |-> n.pub.sink[Len(w.pub.sink) + k]]]

\* invocations that keep their observations in one module-level list
ConcurrentStepSharedInstances(c, i, n) ==
    [c EXCEPT !.worlds[i] = n,
              !.worlds[3 - i].cyc.instances = n.cyc.instances,
              !.store = @ \o Written(i, c.worlds[i], n)]

\* invocation i takes a step to state n
ConcurrentStep(c, i, n) ==
    [c EXCEPT !.worlds[i] = n,
              !.store = @ \o Written(i, c.worlds[i], n)]

concurrent_lambda_handler ==
    /\ \E i \in 1..2 : \E n \in CycleSteps(con.worlds[i]) :
          con' = ConcurrentStep(con, i, n)
    /\ UNCHANGED <<pub, cmp, qry, cyc, agg, lim>>

ConcurrentNext == concurrent_lambda_handler

ConcurrentSpec == Idle /\ [][ConcurrentNext]_vars

(***************************************************************************)
(* LimiterSpec: one RateLimiter with max_requests in 1..MaxLimit and       *)
(* window_seconds in 1..MaxWindow that receives up to MaxLimiterCalls      *)
(* requests while the clock goes from 0 up to MaxClock.                    *)
(***************************************************************************)
MaxLimit == 2
MaxWindow == 2
MaxClock == 3
MaxLimiterCalls == 4

Request(x_api_key, x_forwarded_for, client) ==
    [x_api_key |-> x_api_key, x_forwarded_for |-> x_forwarded_for, client |-> client]

\* a request with an API key, one through a proxy, the same client
\* directly, and one without a client address
LimiterRequests ==
    { Request(<<"k1">>, <<>>, <<"10.0.0.1">>),
      Request(<<>>, << <<"10.0.0.1", "10.0.0.9">> >>, <<"10.0.0.9">>),
      Request(<<"">>, <<>>, <<"10.0.0.1">>),
      Request(<<>>, <<>>, <<>>) }

RateLimiter_init ==
    /\ lim.pc = "idle"
    /\ \E max_requests \in 1..MaxLimit : \E window_seconds \in 1..MaxWindow :
          lim' = RateLimiter(lim, max_requests, window_seconds)

RateLimiter_call ==
    /\ lim.pc = "ready"
    /\ Len(lim.calls) < MaxLimiterCalls
    /\ \E request \in LimiterRequests : \E now \in lim.clock..MaxClock :
          lim' = RateLimiterCall(lim, request, now)

LimiterNext ==
    /\ \/ RateLimiter_init
       \/ RateLimiter_call
    /\ UNCHANGED <<pub, cmp, qry, cyc, agg, con>>

LimiterSpec == Idle /\ [][LimiterNext]_vars

(***************************************************************************)
(* The aggregator and the score calculators on snapshots of the caller's   *)
(* making.  FleetMetrics is a plain dataclass: a caller can put any count  *)
(* and any float into it, whether or not a fleet can produce them (the     *)
(* counts and averages need not agree with the observation list).          *)
(* Negative values, infinities and NaN are left out.                       *)
(***************************************************************************)
MaxCount == 3
MaxChecked == 2
MaxObservations == 2
MaxUtilization == 120

Environments == {"dev", "prod"}

\* readings of datetime.now(timezone.utc)
Clocks == {<<"now">>, <<"later">>}

\* FleetMetrics(total_instances=..., ...)
Snapshot(total, running, stopped, pending, cpu, memory, disk, compliant, non_compliant, cost, instance_metrics) ==
    [FleetMetrics EXCEPT
        !.total_instances = total, !.running_instances = running,
        !.stopped_instances = stopped, !.pending_instances = pending,
        !.avg_cpu_utilization = cpu, !.avg_memory_utilization = memory,
        !.avg_disk_utilization = disk, !.compliant_instances = compliant,
        !.non_compliant_instances = non_compliant, !.total_hourly_cost = cost,
        !.instance_metrics = instance_metrics]

\* InstanceMetrics(...) with a state and an optional CPU value
Observation(k, state, cpu) ==
    [InstanceMetrics(k, "t3.large", "us-east-1a", state,
                     IF state = "running" THEN get_instance_cost("t3.large")
                     ELSE Float(0))
        EXCEPT !.cpu_utilization = cpu]

\* CPU values of an observation: none, and values at and around the
\* thresholds of the cost efficiency score
CpuValues ==
    {<<>>} \cup {<<Rat(k, 10)>> : k \in {0, 49, 50, 51, 199, 200, 201, 1500}}

\* the observation lists of at most n entries
ObservationLists(n) ==
    UNION { { [k \in 1..len |-> Observation(k, f[k][1], f[k][2])] :
                f \in [1..len -> {"running", "stopped"} \X CpuValues] } :
            len \in 0..n }

\* utilization averages around the thresholds warning and critical
Levels(warning, critical) ==
    { Float(0), Rat(4567, 100), Float(warning), Rat(warning + critical, 2),
      Float(critical), Float(critical + 3), Float(critical + 5),
      Float(critical + 10), Float(150) }

\* snapshots handed to aggregate
\* FleetMetrics(total_instances=-1, stopped_instances=-2): the dataclass
\* takes any integers
MalformedSnapshots ==
    { Snapshot(-1, 0, -2, 0, Float(0), Float(0), Float(0), 0, 0, Float(0), <<>>) }

AggregateSnapshots ==
    { Snapshot(total, running, sp[1], sp[2], avg[1], avg[2], avg[3],
               checked[1], checked[2], cost, instance_metrics) :
        total \in {0, MaxCount}, running \in 0..MaxCount,
        sp \in {<<0, 0>>, <<1, 0>>, <<0, 2>>},
        avg \in { <<Float(0), Float(0), Float(0)>>,
                  <<Rat(4567, 100), Float(60), Float(70)>>,
                  <<Float(70), Float(75), Float(80)>>,
                  <<Float(95), Float(95), Float(98)>>,
                  <<Float(150), Float(0), Float(0)>> },
        checked \in {<<0, 0>>, <<2, 1>>, <<0, 1>>, <<1, 0>>},
        cost \in {Float(0), Rat(3752, 10000)},
        instance_metrics \in
            { <<>>,
              <<Observation(1, "running", <<Rat(49, 10)>>)>>,
              <<Observation(1, "running", <<>>), Observation(2, "stopped", <<>>)>> } }
    \cup MalformedSnapshots

\* snapshots handed to FleetHealthScore.calculate
HealthSnapshots ==
    { Snapshot(total, total, 0, 0, cpu, memory, disk, compliant, non_compliant,
               Float(0), <<>>) :
        total \in {0, 1},
        cpu \in Levels(CPU_WARNING, CPU_CRITICAL),
        memory \in Levels(MEMORY_WARNING, MEMORY_CRITICAL),
        disk \in Levels(DISK_WARNING, DISK_CRITICAL),
        compliant \in 0..MaxChecked, non_compliant \in 0..MaxChecked }

\* snapshots handed to ComplianceScore.calculate
ComplianceSnapshots ==
    { Snapshot(total, total, 0, 0, Float(50), Float(50), Float(50),
               compliant, non_compliant, Float(0), <<>>) :
        total \in 0..MaxCount,
        compliant \in 0..(MaxChecked + 1), non_compliant \in 0..(MaxChecked + 1) }

\* snapshots handed to CostEfficiencyScore.calculate
CostSnapshots ==
    { Snapshot(MaxCount, running, 0, 0, Float(50), Float(50), Float(50), 0, 0,
               Float(0), instance_metrics) :
        running \in 0..MaxCount,
        instance_metrics \in ObservationLists(MaxObservations) }

\* snapshots handed to CapacityUtilization.calculate
CapacitySnapshots ==
    { Snapshot(MaxCount, running, 0, 0, cpu, memory, disk, 0, 0, Float(0), <<>>) :
        running \in 0..MaxCount,
        cpu \in {Float(0), Rat(4567, 100), Float(100), Float(150)},
        memory \in {Float(0), Rat(5512, 100), Float(100), Float(150)},
        disk \in {Float(0), Float(30), Float(100), Float(150)} }

\* utilization values 0, 0.5, 1, ... MaxUtilization
UtilizationGrid == { Rat(k, 2) : k \in 0..(2 * MaxUtilization) }

\* the (warning, critical) pairs of config.Thresholds
ThresholdPairs ==
    { <<CPU_WARNING, CPU_CRITICAL>>, <<MEMORY_WARNING, MEMORY_CRITICAL>>,
      <<DISK_WARNING, DISK_CRITICAL>> }

MetricAggregator_init ==
    /\ agg.pc = "idle"
    /\ \E env \in Environments : \E fleet_metrics \in AggregateSnapshots :
          agg' = MetricAggregator(agg, env, fleet_name, fleet_metrics)

aggregate_call ==
    /\ agg.pc = "ready"
    /\ Len(agg.calls) < 2
    /\ \E now \in Clocks : agg' = AggregateCall(agg, now)

FleetHealthScore_calculate ==
    /\ agg.pc = "idle"
    /\ \E fleet_metrics \in HealthSnapshots :
          agg' = ScoreCall(agg, "FleetHealthScore", fleet_metrics,
                           FleetHealthScore(fleet_metrics))

ComplianceScore_calculate ==
    /\ agg.pc = "idle"
    /\ \E fleet_metrics \in ComplianceSnapshots :
          agg' = ScoreCall(agg, "ComplianceScore", fleet_metrics,
                           ComplianceScore(fleet_metrics))

CostEfficiencyScore_calculate ==
    /\ agg.pc = "idle"
    /\ \E fleet_metrics \in CostSnapshots :
          agg' = ScoreCall(agg, "CostEfficiencyScore", fleet_metrics,
                           CostEfficiencyScore(fleet_metrics))

CapacityUtilization_calculate ==
    /\ agg.pc = "idle"
    /\ \E fleet_metrics \in CapacitySnapshots :
          agg' = ScoreCall(agg, "CapacityUtilization", fleet_metrics,
                           CapacityUtilization(fleet_metrics))

calculate_utilization_health ==
    /\ agg.pc = "idle"
    /\ \E utilization \in UtilizationGrid : \E th \in ThresholdPairs :
          agg' = HealthCall(agg, utilization, th[1], th[2])

\* scores handed to get_status: -2, -1.5, ... MaxUtilization
StatusScores == { Rat(k, 2) : k \in (-4)..(2 * MaxUtilization) }

Scorers ==
    {"FleetHealthScore", "ComplianceScore", "CostEfficiencyScore", "CapacityUtilization"}

get_status_call ==
    /\ agg.pc = "idle"
    /\ \E scorer \in Scorers : \E score \in StatusScores :
          agg' = StatusCall(agg, scorer, score)

MetricsNext ==
    /\ \/ MetricAggregator_init
       \/ aggregate_call
       \/ FleetHealthScore_calculate
       \/ ComplianceScore_calculate
       \/ CostEfficiencyScore_calculate
       \/ CapacityUtilization_calculate
       \/ calculate_utilization_health
       \/ get_status_call
    /\ UNCHANGED <<pub, cmp, qry, cyc, con, lim>>

MetricsSpec == Idle /\ [][MetricsNext]_vars

-----------------------------------------------------------------------------
(***************************************************************************)
(* Properties of publish_metrics (checked under PublishSpec).              *)
(***************************************************************************)
RECURSIVE Flatten(_)
Flatten(ss) == IF Len(ss) = 0 THEN <<>> ELSE Head(ss) \o Flatten(Tail(ss))

Mentions(message, x) == \E i \in 1..Len(message) : message[i] = x

\* C1: when every write succeeds, publish_metrics issues ceil(n/20) writes,
\* one per consecutive batch of at most 20 points in input order (all but
\* the last of exactly 20), the written batches concatenate to the input
\* list and the returned count is n; 25 points give writes of 20 and 5 and
\* a count of 25, the empty list gives no write and a count of 0.
C1_PublishBatches ==
    pub.pc = "returned" =>
        LET n == Len(pub.metrics)
            k == Len(pub.calls)
            written == Flatten(pub.sink)
        IN  /\ 20 * (k - 1) < n /\ n <= 20 * k
            /\ \A b \in 1..k :
                  /\ pub.calls[b].ok
                  /\ pub.sink[b] = pub.calls[b].MetricData
                  /\ Len(pub.calls[b].MetricData) <= 20
                  /\ b < k => Len(pub.calls[b].MetricData) = 20
            /\ Len(pub.sink) = k
            /\ Len(written) = n
            /\ \A i \in 1..n :
                  /\ written[i].MetricName = pub.metrics[i].name
                  /\ written[i].Value = pub.metrics[i].value
                  /\ written[i].Unit = pub.metrics[i].unit
                  /\ written[i].Dimensions = pub.metrics[i].dimensions
                  /\ written[i].Timestamp = pub.metrics[i].timestamp
            /\ pub.result = Returned(n)
            /\ n = 25 => /\ k = 2
                         /\ Len(pub.calls[1].MetricData) = 20
                         /\ Len(pub.calls[2].MetricData) = 5
            /\ n = 0 => k = 0

C1_Witness ==
    /\ pub.pc = "returned"
    /\ Len(pub.metrics) = 25
    /\ Len(pub.calls) = 2
    /\ pub.result = Returned(25)

\* C2: a failed write of batch k ends the call with an error and no count,
\* is the last write the call issues (no batch after k is written), and
\* leaves batches 0..k-1 written as they were.
C2_PublishAbortsAtFailedBatch ==
    \A c \in 1..Len(pub.calls) :
        ~pub.calls[c].ok =>
            /\ c = Len(pub.calls)
            /\ pub.pc = "raised"
            /\ pub.result.kind = "raise"
            /\ pub.batch_index = c - 1
            /\ Len(pub.sink) = c - 1
            /\ \A j \in 1..(c - 1) :
                  /\ pub.calls[j].ok
                  /\ pub.sink[j] = pub.calls[j].MetricData
                  /\ Len(pub.sink[j]) = 20
            /\ \A i \in 1..Len(Flatten(pub.sink)) :
                  Flatten(pub.sink)[i].MetricName = pub.metrics[i].name

C2_Witness ==
    /\ pub.pc = "raised"
    /\ Len(pub.batches) = 3
    /\ Len(pub.calls) = 2
    /\ ~pub.calls[2].ok
    /\ Len(pub.sink) = 1

\* C3: the error publish_metrics raises on a failed write names the index
\* of the failing batch and the backend's error code and error message.
C3_ErrorNamesBatchIndex ==
    pub.pc = "raised" =>
        LET failed == pub.log[Len(pub.log)]
        IN  /\ Mentions(pub.result.message, ToString(failed.batch_index))
            /\ Mentions(pub.result.message, failed.error_code)
            /\ Mentions(pub.result.message, failed.error_message)

-----------------------------------------------------------------------------
(***************************************************************************)
(* Properties of get_instance_compliance (checked under ComplianceSpec).   *)
(***************************************************************************)
IsNonCompliantFinding(item) == item \in {<<"NON_COMPLIANT">>, <<"non_compliant">>}
IsCompliantFinding(item) == item \in {<<"COMPLIANT">>, <<"compliant">>}

\* the lookup of instance k is over: the loop has moved past it
LookupDone(k) == cmp.pc \in {"exit", "returned"} \/ (cmp.pc = "page" /\ k < cmp.idx)

\* C7: an instance whose findings were all returned (over any number of
\* pages, in any order) is non-compliant if some finding is non-compliant,
\* else compliant if some finding is compliant, else unknown; the verdict
\* depends on the set of findings only, so it is the same for every
\* permutation of them.
C7_ComplianceVerdict ==
    \A k \in 1..Len(cmp.instance_ids) :
        (LookupDone(k) /\ ~cmp.failed[k]) =>
            cmp.compliance_map[k] =
                IF \E f \in cmp.returned[k] : IsNonCompliantFinding(f) THEN NON_COMPLIANT
                ELSE IF \E f \in cmp.returned[k] : IsCompliantFinding(f) THEN COMPLIANT
                ELSE UNKNOWN

\* a non-compliant finding on the first page, a compliant one on the second
C7_Witness ==
    /\ cmp.pc = "returned"
    /\ Len(cmp.instance_ids) = 2
    /\ ~cmp.failed[1]
    /\ cmp.requests[1] = 2
    /\ cmp.returned[1] = {<<"NON_COMPLIANT">>, <<"COMPLIANT">>}
    /\ cmp.result.value[1] = NON_COMPLIANT
    /\ cmp.returned[2] = {<<"COMPLIANT">>, <<>>}
    /\ cmp.result.value[2] = COMPLIANT

\* C8: an instance whose compliance lookup failed, on its first or on a
\* later page, is unknown in the returned mapping, and every other instance
\* is still looked up.
C8_FailedLookupIsUnknown ==
    cmp.pc = "returned" =>
        \A k \in 1..Len(cmp.instance_ids) :
            /\ cmp.requests[k] >= 1
            /\ cmp.failed[k] => cmp.result.value[k] = UNKNOWN

-----------------------------------------------------------------------------
(***************************************************************************)
(* Properties of query_instance_metrics (checked under QuerySpec).         *)
(***************************************************************************)
\* the samples the backend returned for query j of get_metric_data call c
SamplesGiven(c, j) ==
    LET call == qry.calls[c]
    IN  { call.pages[p].sample :
            p \in {x \in 1..Len(call.pages) :
                      HasDatapoint(call.pages[x].pattern, call.queries[j])} }

\* C9: the identifiers are cut into consecutive groups of at most 500, each
\* identifier in exactly one group, with one get_metric_data call per group;
\* the values of all groups are merged into one mapping, a group whose
\* query fails contributes no value, the other groups still contribute
\* theirs, and the call returns.
C9_QueryGroupsMerged ==
    qry.pc = "returned" =>
        LET n == Len(qry.instance_ids)
            k == Len(qry.calls)
        IN  /\ 500 * (k - 1) < n /\ n <= 500 * k
            /\ qry.result.kind = "return"
            /\ \A c \in 1..k :
                  /\ Len(qry.calls[c].queries) <= 500
                  /\ c < k => Len(qry.calls[c].queries) = 500
                  /\ c = k => Len(qry.calls[c].queries) = n - 500 * (k - 1)
                  /\ \A j \in 1..Len(qry.calls[c].queries) :
                        LET iid == qry.calls[c].queries[j].InstanceId
                        IN  /\ iid = qry.instance_ids[500 * (c - 1) + j]
                            /\ IF ~qry.calls[c].ok \/ SamplesGiven(c, j) = {}
                               THEN qry.result.value[iid] = <<>>
                               ELSE /\ Len(qry.result.value[iid]) = 1
                                    /\ qry.result.value[iid][1] \in SamplesGiven(c, j)

\* 501 identifiers: the first group fails, the second one answers
C9_Witness ==
    /\ qry.pc = "returned"
    /\ Len(qry.instance_ids) = 501
    /\ Len(qry.calls) = 2
    /\ ~qry.calls[1].ok
    /\ qry.calls[2].ok
    /\ qry.result.value[500] = <<>>
    /\ qry.result.value[501] = <<10>>

\* the backend returned no value for query j of get_metric_data call c
NoValueReturned(c, j) == ~qry.calls[c].ok \/ SamplesGiven(c, j) = {}

\* C10 as claimed: an instance without a value is not a key of the
\* returned mapping.
C10_NoValueIsAbsentKey ==
    qry.pc = "returned" =>
        \A c \in 1..Len(qry.calls) :
            \A j \in 1..Len(qry.calls[c].queries) :
                NoValueReturned(c, j) =>
                    qry.calls[c].queries[j].InstanceId \notin DOMAIN qry.result.value

\* C10 as amended: every requested instance is a key of the returned
\* mapping, an instance for which the backend returned no value is mapped
\* to None, and the call returns without an error.
C10_NoValueIsNone ==
    qry.pc = "returned" =>
        /\ qry.result.kind = "return"
        /\ DOMAIN qry.result.value =
               {qry.instance_ids[k] : k \in 1..Len(qry.instance_ids)}
        /\ \A c \in 1..Len(qry.calls) :
              \A j \in 1..Len(qry.calls[c].queries) :
                  NoValueReturned(c, j) =>
                      qry.result.value[qry.calls[c].queries[j].InstanceId] = <<>>

C10_Witness ==
    /\ qry.pc = "returned"
    /\ Len(qry.instance_ids) = 2
    /\ qry.calls[1].ok
    /\ NoValueReturned(1, 1)
    /\ ~NoValueReturned(1, 2)
    /\ qry.result.value = <<<<>>, <<10>>>>

\* the newest sample the backend returned for query j of call c: the one of
\* the earliest page that carries a datapoint for it
NewestSample(c, j) ==
    CHOOSE s \in SamplesGiven(c, j) : \A t \in SamplesGiven(c, j) : s <= t

\* C11: with the backend delivering samples newest first, also across
\* continuation pages, the value mapped to an instance is the newest sample
\* the backend returned for it.
C11_NewestSampleReturned ==
    qry.pc = "returned" =>
        \A c \in 1..Len(qry.calls) :
            \A j \in 1..Len(qry.calls[c].queries) :
                ~NoValueReturned(c, j) =>
                    qry.result.value[qry.calls[c].queries[j].InstanceId]
                        = <<NewestSample(c, j)>>


\* the result entries of the first k pages of call c, in page order
RECURSIVE PagesResults(_, _)
PagesResults(c, k) ==
    IF k = 0 THEN <<>>
    ELSE PagesResults(c, k - 1)
            \o PageEntries(qry.calls[c].queries, qry.calls[c].pages[k].pattern,
                           qry.calls[c].pages[k].sample)

\* get_metric_data call c has returned its list
MetricDataReturned(c) == Len(qry.calls[c].metric_results) > 0

\* get_metric_data call c has ended, by returning or by raising
MetricDataEnded(c) ==
    /\ c <= Len(qry.calls)
    /\ MetricDataReturned(c) \/ ~qry.calls[c].ok

\* the largest number of get_metric_data calls one query makes
MaxCalls == (batch_size + MaxQueryExtra + batch_size - 1) \div batch_size

\* the first request carries no token and every later one the token of the
\* response just before it; a request follows only a response with a token,
\* and a response with a token is followed by a request or is still being
\* followed up; a returned call ended on a response without a token and
\* returned the concatenation of all its pages in order
C12_PagesChained ==
    \A c \in 1..Len(qry.calls) :
        LET call == qry.calls[c]
            n == Len(call.pages)
        IN  /\ \A p \in 1..n :
                    call.pages[p].sent
                        = IF p = 1 THEN <<>> ELSE call.pages[p - 1].NextToken
            /\ \A p \in 1..(n - 1) : call.pages[p].NextToken # <<>>
            /\ (n > 0 /\ call.pages[n].NextToken # <<>>) =>
                    /\ c = Len(qry.calls)
                    /\ qry.pc = "page"
                    /\ ~MetricDataReturned(c)
                    /\ qry.next_token = call.pages[n].NextToken
                    /\ qry.all_results = PagesResults(c, n)
            /\ MetricDataReturned(c) =>
                    /\ call.ok
                    /\ n > 0
                    /\ call.pages[n].NextToken = <<>>
                    /\ call.metric_results[1] = PagesResults(c, n)

\* C12: get_metric_data keeps requesting pages while the response carries
\* a token, each request after the first passing the token of the response
\* just before it; it returns only after a response without a token, and
\* then the concatenation of all pages' results in order; and with a backend
\* that eventually answers without a token every call ends.
C12_PaginationComplete ==
    /\ []C12_PagesChained
    /\ \A c \in 1..MaxCalls :
           (Len(qry.calls) >= c) ~> MetricDataEnded(c)

\* a call that returned the entries of two pages, both carrying datapoints
C12_Witness ==
    \E c \in 1..Len(qry.calls) :
        /\ MetricDataReturned(c)
        /\ Len(qry.calls[c].pages) = MaxQueryPages
        /\ \A p \in 1..Len(qry.calls[c].pages) : qry.calls[c].pages[p].pattern = "all"
        /\ qry.calls[c].pages[1].NextToken # <<>>
        /\ Len(qry.calls[c].metric_results[1]) = MaxQueryPages * Len(qry.calls[c].queries)

-----------------------------------------------------------------------------
(***************************************************************************)
(* Properties of the aggregation cycle (checked under CycleSpec).          *)
(***************************************************************************)
SourceOps == {"get_metric_data", "list_compliance_items"}

\* a failure the clients absorb: a utilization or compliance request that
\* raised ClientError
Tolerated(entry) ==
    \/ entry.outcome = "ok"
    \/ entry.outcome = "ClientError" /\ entry.op \in SourceOps

\* no stage of the cycle raised
CycleCompleted == \A k \in 1..Len(cyc.trace) : Tolerated(cyc.trace[k])

InventoryFailed ==
    \E k \in 1..Len(cyc.trace) :
        cyc.trace[k].op = "describe_instances" /\ cyc.trace[k].outcome # "ok"

\* C5: when the inventory fetch fails the cycle is aborted: it issues no
\* utilization request, no compliance request and no sink write, and it
\* ends with an error result.
C5_InventoryFailureAborts ==
    InventoryFailed =>
        /\ cyc.pc = "done"
        /\ cyc.result.kind = "return"
        /\ cyc.result.value.statusCode = 500
        /\ "error" \in DOMAIN cyc.result.value.body
        /\ \A k \in 1..Len(cyc.trace) :
              cyc.trace[k].op \notin SourceOps \cup {"put_metric_data"}
        /\ qry = QryIdle
        /\ cmp = CmpIdle
        /\ pub = PubIdle

\* the second page of the inventory fails after the first one delivered a
\* running instance
C5_Witness ==
    /\ InventoryFailed
    /\ Len(cyc.trace) = 3
    /\ cyc.trace[3].outcome = "ClientError"
    /\ cyc.trace[2].op = "describe_instances"
    /\ \E k \in 1..Len(cyc.instances) : cyc.instances[k].state = "running"

\* the instance identifiers the inventory pages before request k returned
InventoryBefore(k) ==
    UNION { cyc.trace[j].ids :
              j \in {i \in 1..(k - 1) : cyc.trace[i].op = "describe_instances"} }

\* C6: every utilization request and every compliance request is issued
\* after the inventory fetch has completed (the whole fleet was delivered
\* and no inventory request follows) and names only instance identifiers
\* the inventory returned; after a sink write no source request follows.
C6_SourcesAfterInventoryBeforeSink ==
    \A k \in 1..Len(cyc.trace) :
        LET entry == cyc.trace[k]
        IN  /\ entry.op \in SourceOps =>
                 /\ \A j \in (k + 1)..Len(cyc.trace) :
                       cyc.trace[j].op # "describe_instances"
                 /\ InventoryBefore(k) =
                        {cyc.fleet[i].InstanceId : i \in 1..Len(cyc.fleet)}
                 /\ entry.ids \subseteq InventoryBefore(k)
            /\ entry.op = "put_metric_data" =>
                 \A j \in (k + 1)..Len(cyc.trace) :
                    cyc.trace[j].op \notin SourceOps \cup {"describe_instances"}

\* a completed cycle over a two-page inventory with a running and a
\* not-running instance: utilization and compliance requests, then the write
C6_Witness ==
    /\ cyc.pc = "done"
    /\ cyc.result.value.statusCode = 200
    /\ \E k \in 1..Len(cyc.fleet) : cyc.fleet[k].State # "running"
    /\ Cardinality({k \in 1..Len(cyc.trace) : cyc.trace[k].op = "describe_instances"}) = 2
    /\ \E k \in 1..Len(cyc.trace) : cyc.trace[k].op = "get_metric_data"
    /\ \E k \in 1..Len(cyc.trace) : cyc.trace[k].op = "list_compliance_items"
    /\ cyc.trace[Len(cyc.trace)] =
           [op |-> "put_metric_data", ids |-> {}, outcome |-> "ok"]

-----------------------------------------------------------------------------
(***************************************************************************)
(* Properties of MetricAggregator.aggregate and of the score calculators   *)
(* (checked under MetricsSpec).                                            *)
(***************************************************************************)
MetricNamesInOrder ==
    << "InstanceCount", "RunningInstances", "StoppedInstances", "PendingInstances",
       "CPUUtilization", "MemoryUtilization", "DiskUtilization",
       "FleetHealthScore", "ComplianceScore", "CostEfficiencyScore",
       "CapacityUtilization", "CostPerInstance", "TotalFleetCost" >>

\* the value of the point called name in a list of points that has one
ValueOf(metrics, name) ==
    LET i == CHOOSE j \in 1..Len(metrics) : metrics[j].name = name
    IN  metrics[i].value

\* the list a call returned holds the 13 points in the order counts,
\* averages, scores, costs; the counts and averages are the snapshot's
ThirteenPoints(call) ==
    LET fm == call.snapshot
        ms == call.metrics
    IN  /\ Len(ms) = 13
        /\ [i \in 1..Len(ms) |-> ms[i].name] = MetricNamesInOrder
        /\ ValueOf(ms, "InstanceCount") = Float(fm.total_instances)
        /\ ValueOf(ms, "RunningInstances") = Float(fm.running_instances)
        /\ ValueOf(ms, "StoppedInstances") = Float(fm.stopped_instances)
        /\ ValueOf(ms, "PendingInstances") = Float(fm.pending_instances)
        /\ ValueOf(ms, "CPUUtilization") = fm.avg_cpu_utilization
        /\ ValueOf(ms, "MemoryUtilization") = fm.avg_memory_utilization
        /\ ValueOf(ms, "DiskUtilization") = fm.avg_disk_utilization

\* total_hourly_cost / running, or 0 when running is 0
CostQuotient(fm) ==
    IF fm.running_instances = 0 THEN Float(0)
    ELSE RDiv(fm.total_hourly_cost, Float(fm.running_instances))

\* C13 (as stated): for every snapshot, the all-zero one included,
\* aggregate returns exactly 13 points: 4 counts, 3 utilization averages,
\* 4 scores and 2 cost points, where CostPerInstance is
\* total_hourly_cost/running, or 0 when running is 0.
C13_ThirteenPointsExactCost ==
    \A k \in 1..Len(agg.calls) :
        /\ ThirteenPoints(agg.calls[k])
        /\ ValueOf(agg.calls[k].metrics, "CostPerInstance")
               = CostQuotient(agg.calls[k].snapshot)

\* C13 (amended): for every snapshot, the all-zero one included, aggregate
\* returns exactly 13 points: 4 counts, 3 utilization averages, 4 scores
\* and 2 cost points, where CostPerInstance is total_hourly_cost/running
\* rounded to 4 decimals, or 0 when running is 0.
C13_ThirteenPoints ==
    \A k \in 1..Len(agg.calls) :
        /\ ThirteenPoints(agg.calls[k])
        /\ ValueOf(agg.calls[k].metrics, "CostPerInstance")
               = round(CostQuotient(agg.calls[k].snapshot), 4)

\* aggregate has returned its 13 points for a snapshot whose cost per
\* running instance has more than 4 decimals
C13_Witness ==
    /\ Len(agg.calls) > 0
    /\ Len(agg.calls[1].metrics) = 13
    /\ agg.calls[1].snapshot.running_instances > 0
    /\ round(CostQuotient(agg.calls[1].snapshot), 4)
           # CostQuotient(agg.calls[1].snapshot)

\* C14: all points returned by one call of aggregate carry the same two
\* dimension pairs, (Environment, environment) and (FleetName, fleet name)
\* of the aggregator, and the same timestamp.
C14_SameDimensionsAndTimestamp ==
    \A k \in 1..Len(agg.calls) :
        \A i \in 1..Len(agg.calls[k].metrics) :
            LET point == agg.calls[k].metrics[i]
            IN  /\ point.dimensions
                       = << [Name |-> "Environment",
                             Value |-> agg.aggregator[1].environment],
                            [Name |-> "FleetName",
                             Value |-> agg.aggregator[1].fleet_name] >>
                /\ point.timestamp = agg.calls[k].metrics[1].timestamp
                /\ point.timestamp = agg.calls[k].timestamp

\* an aggregator of environment prod has returned its points
C14_Witness ==
    /\ Len(agg.calls) > 0
    /\ agg.aggregator[1].environment = "prod"
    /\ Len(agg.calls[1].metrics) = 13
    /\ agg.calls[1].timestamp = <<"later">>

CountsConsistent(fm) ==
    fm.running_instances + fm.stopped_instances + fm.pending_instances
        <= fm.total_instances

InPercentRange(x) == RLe(Float(0), x) /\ RLe(x, Float(100))

\* C17: for every snapshot, also one with utilization averages above 100
\* or otherwise extreme values, each of the four scorers (Fleet Health,
\* Compliance, Cost Efficiency, Capacity Utilization) returns a value in
\* the range [0, 100].
C17_ScoresInRange ==
    /\ (agg.pc = "scored" /\ agg.scorer \in {"FleetHealthScore", "ComplianceScore",
                                              "CostEfficiencyScore",
                                              "CapacityUtilization"})
           => InPercentRange(agg.score[1])
    /\ \A k \in 1..Len(agg.calls) :
           \A name \in {"FleetHealthScore", "ComplianceScore",
                         "CostEfficiencyScore", "CapacityUtilization"} :
               InPercentRange(ValueOf(agg.calls[k].metrics, name))

\* the three pieces of h(u, w, c) as the specification gives them
HBelowWarning(u, w, c) == RSub(Float(100), RMul(RDiv(u, Float(w)), Float(30)))
HBelowCritical(u, w, c) ==
    RSub(Float(70), RMul(RDiv(RSub(u, Float(w)), Float(c - w)), Float(40)))
HAboveCritical(u, w, c) ==
    RSub(Float(30), RMul(RMin(Float(1), RDiv(RSub(u, Float(c)), Float(10))),
                         Float(30)))

SpecifiedH(u, w, c) ==
    IF RLe(u, Float(w)) THEN HBelowWarning(u, w, c)
    ELSE IF RLe(u, Float(c)) THEN HBelowCritical(u, w, c)
    ELSE HAboveCritical(u, w, c)

\* 0.30*h(cpu,70,90) + 0.25*h(mem,75,90) + 0.20*h(disk,80,95)
\* + 0.25*compliance_health, clamped to [0, 100], rounded to 2 decimals
SpecifiedHealthScore(fm) ==
    LET checked == fm.compliant_instances + fm.non_compliant_instances
        compliance_health ==
            IF checked = 0 THEN Float(100)
            ELSE Rat(100 * fm.compliant_instances, checked)
        sum == RAdd(RAdd(RMul(Rat(30, 100), SpecifiedH(fm.avg_cpu_utilization, 70, 90)),
                         RMul(Rat(25, 100),
                              SpecifiedH(fm.avg_memory_utilization, 75, 90))),
                    RAdd(RMul(Rat(20, 100),
                              SpecifiedH(fm.avg_disk_utilization, 80, 95)),
                         RMul(Rat(25, 100), compliance_health)))
    IN  round(RMax(Float(0), RMin(Float(100), sum)), 2)

\* the snapshot avg_cpu=95, avg_mem=95, avg_disk=98, compliant=0,
\* non_compliant=1, total=1
CriticalScenario(fm) ==
    /\ fm.avg_cpu_utilization = Float(95)
    /\ fm.avg_memory_utilization = Float(95)
    /\ fm.avg_disk_utilization = Float(98)
    /\ fm.compliant_instances = 0
    /\ fm.non_compliant_instances = 1
    /\ fm.total_instances = 1

\* C18: for every snapshot with total > 0 the Fleet Health Score is the
\* weighted sum 0.30/0.25/0.20/0.25 of the CPU, memory, disk and compliance
\* healths, clamped to [0, 100] and rounded to 2 decimals; the utilization
\* health h follows its three pieces, is 100 at 0, 70 at the warning and 30
\* at the critical threshold and 0 from 10 above it on, never increases
\* with the utilization and has no jump (its pieces meet at the thresholds
\* and it falls by at most 3 per unit); the critical scenario scores below
\* 30.
C18_FleetHealthFormula ==
    /\ (agg.pc = "scored" /\ agg.scorer = "FleetHealthScore") =>
           LET fm == agg.fleet_metrics[1]
           IN  /\ fm.total_instances > 0 => agg.score[1] = SpecifiedHealthScore(fm)
               /\ CriticalScenario(fm) => RLt(agg.score[1], Float(30))
    /\ (agg.pc = "scored" /\ agg.scorer = "_calculate_utilization_health") =>
           LET u == agg.args[1]
               w == agg.args[2]
               c == agg.args[3]
               h == agg.score[1]
               step == Rat(1, 2)
               next == _calculate_utilization_health(RAdd(u, step), w, c)
           IN  /\ h = SpecifiedH(u, w, c)
               /\ u = Float(0) => h = Float(100)
               /\ u = Float(w) => h = Float(70) /\ HBelowCritical(u, w, c) = h
               /\ u = Float(c) => h = Float(30) /\ HAboveCritical(u, w, c) = h
               /\ RLe(Float(c + 10), u) => h = Float(0)
               /\ RLe(next, h)
               /\ RLe(RSub(h, next), RMul(Float(3), step))

\* the health score of the critical scenario has been calculated
C18_Witness ==
    /\ agg.pc = "scored"
    /\ agg.scorer = "FleetHealthScore"
    /\ CriticalScenario(agg.fleet_metrics[1])
    /\ agg.score[1] = Rat(1245, 100)

\* C19: for every snapshot the Compliance Score is
\* 100*compliant/(compliant+non_compliant) rounded to 2 decimals when
\* compliant+non_compliant > 0 and exactly 100 when it is 0; for
\* compliant=2, non_compliant=1 it is 66.67.
C19_ComplianceScoreFormula ==
    /\ (agg.pc = "scored" /\ agg.scorer = "ComplianceScore") =>
           LET fm == agg.fleet_metrics[1]
               checked == fm.compliant_instances + fm.non_compliant_instances
           IN  /\ checked > 0 =>
                      agg.score[1] = round(Rat(100 * fm.compliant_instances, checked), 2)
               /\ checked = 0 => agg.score[1] = Float(100)
               /\ (fm.compliant_instances = 2 /\ fm.non_compliant_instances = 1)
                      => agg.score[1] = Rat(6667, 100)
    /\ \A k \in 1..Len(agg.calls) :
           LET fm == agg.calls[k].snapshot
               checked == fm.compliant_instances + fm.non_compliant_instances
           IN  ValueOf(agg.calls[k].metrics, "ComplianceScore")
                  = IF checked = 0 THEN Float(100)
                    ELSE round(Rat(100 * fm.compliant_instances, checked), 2)

\* the compliance score of compliant=2, non_compliant=1 has been calculated
C19_Witness ==
    /\ agg.pc = "scored"
    /\ agg.scorer = "ComplianceScore"
    /\ agg.fleet_metrics[1].compliant_instances = 2
    /\ agg.fleet_metrics[1].non_compliant_instances = 1
    /\ agg.score[1] = Rat(6667, 100)

\* the observations of a snapshot that are running and have a CPU value
Classified(fm) ==
    {k \in 1..Len(fm.instance_metrics) :
        /\ fm.instance_metrics[k].state = "running"
        /\ fm.instance_metrics[k].cpu_utilization # <<>>}

\* the CPU value of observation k
CpuOf(fm, k) == fm.instance_metrics[k].cpu_utilization[1]

\* (well*100 + underutilized*50 + idle*10)/count rounded to 2 decimals, or
\* 50 when nothing was classified
SpecifiedCostEfficiency(fm) ==
    LET idle == {k \in Classified(fm) : RLt(CpuOf(fm, k), Float(5))}
        underutilized == {k \in Classified(fm) :
                             RLe(Float(5), CpuOf(fm, k)) /\ RLt(CpuOf(fm, k), Float(20))}
        well == {k \in Classified(fm) : RLe(Float(20), CpuOf(fm, k))}
        count == Cardinality(Classified(fm))
    IN  IF count = 0 THEN Float(50)
        ELSE round(Rat(Cardinality(well) * 100 + Cardinality(underutilized) * 50
                       + Cardinality(idle) * 10, count), 2)

\* the snapshot holds one instance, running at the CPU value tenths/10
SingleRunningAt(fm, tenths) ==
    /\ fm.running_instances = 1
    /\ Len(fm.instance_metrics) = 1
    /\ fm.instance_metrics[1].state = "running"
    /\ fm.instance_metrics[1].cpu_utilization = <<Rat(tenths, 10)>>

\* C20: the Cost Efficiency Score is 0 for a snapshot without running
\* instances; otherwise it classifies the observations that are running
\* and have a CPU value as idle (cpu < 5), underutilized (5 <= cpu < 20)
\* or well-utilized (cpu >= 20), leaves out all others and returns
\* (well*100 + underutilized*50 + idle*10)/count rounded to 2 decimals, or
\* 50 when none was classified; a single running instance scores 10 at
\* 4.9, 50 at 5.1 and at 19.9, and 100 at 20.1.
C20_CostEfficiencyFormula ==
    (agg.pc = "scored" /\ agg.scorer = "CostEfficiencyScore") =>
        LET fm == agg.fleet_metrics[1]
        IN  /\ fm.running_instances = 0 => agg.score[1] = Float(0)
            /\ fm.running_instances > 0 => agg.score[1] = SpecifiedCostEfficiency(fm)
            /\ SingleRunningAt(fm, 49) => agg.score[1] = Float(10)
            /\ SingleRunningAt(fm, 51) => agg.score[1] = Float(50)
            /\ SingleRunningAt(fm, 199) => agg.score[1] = Float(50)
            /\ SingleRunningAt(fm, 201) => agg.score[1] = Float(100)

\* a score has been calculated over an idle instance at 4.9 and a
\* well-utilized one at exactly 20
C20_Witness ==
    /\ agg.pc = "scored"
    /\ agg.scorer = "CostEfficiencyScore"
    /\ agg.fleet_metrics[1].running_instances > 0
    /\ Len(agg.fleet_metrics[1].instance_metrics) = MaxObservations
    /\ \E j, k \in Classified(agg.fleet_metrics[1]) :
           /\ CpuOf(agg.fleet_metrics[1], j) = Rat(49, 10)
           /\ CpuOf(agg.fleet_metrics[1], k) = Float(20)
    /\ agg.score[1] = Float(55)

\* the averages of a snapshot that are strictly greater than 0
PositiveAverages(fm) ==
    LET avgs == <<fm.avg_cpu_utilization, fm.avg_memory_utilization,
                  fm.avg_disk_utilization>>
    IN  {k \in 1..3 : RLt(Float(0), avgs[k])}

\* the mean, rounded to 2 decimals, of the averages greater than 0
SpecifiedCapacity(fm) ==
    LET avgs == <<fm.avg_cpu_utilization, fm.avg_memory_utilization,
                  fm.avg_disk_utilization>>
        cpu == IF 1 \in PositiveAverages(fm) THEN avgs[1] ELSE Float(0)
        memory == IF 2 \in PositiveAverages(fm) THEN avgs[2] ELSE Float(0)
        disk == IF 3 \in PositiveAverages(fm) THEN avgs[3] ELSE Float(0)
    IN  round(RDiv(RAdd(RAdd(cpu, memory), disk),
                   Float(Cardinality(PositiveAverages(fm)))), 2)

\* C21: the Capacity Utilization Score is 0 when running = 0, whatever the
\* averages are, and 0 when all three averages are 0; otherwise it is the
\* mean, rounded to 2 decimals, of exactly those of avg_cpu, avg_mem and
\* avg_disk that are strictly greater than 0.
C21_CapacityFormula ==
    /\ (agg.pc = "scored" /\ agg.scorer = "CapacityUtilization") =>
           LET fm == agg.fleet_metrics[1]
           IN  IF fm.running_instances = 0 \/ PositiveAverages(fm) = {}
               THEN agg.score[1] = Float(0)
               ELSE agg.score[1] = SpecifiedCapacity(fm)
    /\ \A k \in 1..Len(agg.calls) :
           LET fm == agg.calls[k].snapshot
           IN  ValueOf(agg.calls[k].metrics, "CapacityUtilization")
                  = IF fm.running_instances = 0 \/ PositiveAverages(fm) = {}
                    THEN Float(0)
                    ELSE SpecifiedCapacity(fm)

\* a score has been calculated over two averages, the third being 0
C21_Witness ==
    /\ agg.pc = "scored"
    /\ agg.scorer = "CapacityUtilization"
    /\ agg.fleet_metrics[1].running_instances > 0
    /\ agg.fleet_metrics[1].avg_cpu_utilization = Rat(4567, 100)
    /\ agg.fleet_metrics[1].avg_memory_utilization = Rat(5512, 100)
    /\ agg.fleet_metrics[1].avg_disk_utilization = Float(0)
    /\ agg.score[1] = Rat(504, 10)

\* the table "healthy from hi, warning from lo, critical above 0, unknown
\* otherwise"
SpecifiedStatus(score, hi, lo) ==
    IF RLe(Float(hi), score) THEN "healthy"
    ELSE IF RLe(Float(lo), score) THEN "warning"
    ELSE IF RLt(Float(0), score) THEN "critical"
    ELSE "unknown"

\* healthy for 20..70, warning for 10 <= score < 20 or 70 < score <= 85,
\* critical below 10 or above 85
SpecifiedCapacityStatus(score) ==
    IF RLe(Float(20), score) /\ RLe(score, Float(70)) THEN "healthy"
    ELSE IF RLt(score, Float(10)) \/ RLt(Float(85), score) THEN "critical"
    ELSE "warning"

\* C22: each scorer's status classifier is a total function of the score
\* that follows its table: Fleet Health with 80 and 60, Compliance with 90
\* and 80, Cost Efficiency with 70 and 40 (healthy from the upper value,
\* warning from the lower, critical above 0, unknown otherwise, so 0 is
\* unknown); Capacity Utilization healthy for 20..70, warning for
\* 10 <= score < 20 or 70 < score <= 85, critical below 10 or above 85.
C22_StatusTables ==
    agg.pc = "classified" =>
        LET score == agg.args[1]
        IN  /\ Len(agg.status) = 1
            /\ agg.status[1] \in {"healthy", "warning", "critical", "unknown"}
            /\ agg.scorer = "FleetHealthScore"
                   => agg.status[1] = SpecifiedStatus(score, 80, 60)
            /\ agg.scorer = "ComplianceScore"
                   => agg.status[1] = SpecifiedStatus(score, 90, 80)
            /\ agg.scorer = "CostEfficiencyScore"
                   => agg.status[1] = SpecifiedStatus(score, 70, 40)
            /\ agg.scorer = "CapacityUtilization"
                   => agg.status[1] = SpecifiedCapacityStatus(score)
            /\ (score = Float(0) /\ agg.scorer # "CapacityUtilization")
                   => agg.status[1] = "unknown"

\* a score of exactly 0 has been classified by the fleet health classifier
C22_Witness ==
    /\ agg.pc = "classified"
    /\ agg.scorer = "FleetHealthScore"
    /\ agg.args[1] = Float(0)
    /\ agg.status[1] = "unknown"

-----------------------------------------------------------------------------
(***************************************************************************)
(* Properties of the snapshot a cycle builds (checked under CycleSpec).    *)
(***************************************************************************)
\* the cycle has built its snapshot from a fleet that is not empty
SnapshotBuilt == Len(cyc.fleet_metrics) = 1 /\ Len(cyc.instances) > 0

\* the sum of the values f[k], k in the set ks
RECURSIVE SumOver(_, _)
SumOver(f, ks) ==
    IF ks = {} THEN Float(0)
    ELSE LET k == CHOOSE x \in ks : TRUE
         IN  RAdd(f[k], SumOver(f, ks \ {k}))

\* the mean, rounded to 2 decimals, of the values (a list of optional
\* values, one per observation) over the running observations that have
\* one; 0.0 when there is none
SpecifiedAverage(observations, values) ==
    LET ks == {k \in 1..Len(observations) :
                  observations[k].state = "running" /\ values[k] # <<>>}
    IN  IF ks = {} THEN Float(0)
        ELSE round(RDiv(SumOver([k \in ks |-> values[k][1]], ks),
                        Float(Cardinality(ks))), 2)

\* C23: in the snapshot built by a cycle each of avg_cpu, avg_mem and
\* avg_disk is the mean, rounded to 2 decimals, of that metric over exactly
\* the running instances that have a value for it, and 0.0 when no running
\* instance has one; instances that are not running never contribute.
C23_AveragesOverRunningWithValue ==
    SnapshotBuilt =>
        LET fm == cyc.fleet_metrics[1]
            obs == fm.instance_metrics
        IN  /\ fm.avg_cpu_utilization
                   = SpecifiedAverage(obs, [k \in 1..Len(obs) |-> obs[k].cpu_utilization])
            /\ fm.avg_memory_utilization
                   = SpecifiedAverage(obs, [k \in 1..Len(obs) |-> obs[k].memory_utilization])
            /\ fm.avg_disk_utilization
                   = SpecifiedAverage(obs, [k \in 1..Len(obs) |-> obs[k].disk_utilization])
            /\ \A k \in 1..Len(obs) :
                   obs[k].state # "running" =>
                       /\ obs[k].cpu_utilization = <<>>
                       /\ obs[k].memory_utilization = <<>>
                       /\ obs[k].disk_utilization = <<>>

\* a snapshot of two running instances of which one has a memory value,
\* and a memory average that was rounded
C23_Witness ==
    /\ SnapshotBuilt
    /\ cyc.fleet_metrics[1].running_instances = 2
    /\ \E j, k \in 1..Len(cyc.instances) :
           /\ cyc.instances[j].memory_utilization = <<>>
           /\ cyc.instances[k].memory_utilization = <<Rat(80125, 1000)>>
    /\ cyc.fleet_metrics[1].avg_memory_utilization = Rat(8012, 100)

\* C24: in the snapshot built by a cycle compliant_count is the number of
\* observations with is_compliant = true and non_compliant_count the number
\* with is_compliant = false; an instance whose compliance is unknown or
\* was not evaluated has is_compliant absent and is counted in neither.
C24_ComplianceCounts ==
    SnapshotBuilt =>
        LET fm == cyc.fleet_metrics[1]
            obs == fm.instance_metrics
        IN  /\ fm.compliant_instances
                   = Cardinality({k \in 1..Len(obs) : obs[k].is_compliant = <<TRUE>>})
            /\ fm.non_compliant_instances
                   = Cardinality({k \in 1..Len(obs) : obs[k].is_compliant = <<FALSE>>})
            /\ \A k \in 1..Len(obs) :
                   (\/ obs[k].instance_id \notin DOMAIN cyc.compliance_data
                    \/ cyc.compliance_data[obs[k].instance_id] = UNKNOWN)
                       => obs[k].is_compliant = <<>>

\* the table rate of an instance class, the default rate for a class the
\* table does not hold
SpecifiedRate(instance_type) ==
    IF instance_type \in DOMAIN cost_per_hour THEN cost_per_hour[instance_type]
    ELSE cost_per_hour["default"]

\* C25: every observation the inventory client produces has hourly_cost > 0
\* only if its state is running: 0 for every other state, the table rate
\* of its class or the default rate for an unknown class when running; the
\* snapshot's total_hourly_cost is the sum of hourly_cost over the running
\* instances.
C25_CostOnlyWhenRunning ==
    /\ \A k \in 1..Len(cyc.instances) :
           LET obs == cyc.instances[k]
           IN  /\ RLt(Float(0), obs.hourly_cost) => obs.state = "running"
               /\ obs.state # "running" => obs.hourly_cost = Float(0)
               /\ obs.state = "running" =>
                      /\ obs.hourly_cost = SpecifiedRate(obs.instance_type)
                      /\ RLt(Float(0), obs.hourly_cost)
    /\ Len(cyc.fleet_metrics) = 1 =>
           LET obs == cyc.fleet_metrics[1].instance_metrics
               running == {k \in 1..Len(obs) : obs[k].state = "running"}
           IN  cyc.fleet_metrics[1].total_hourly_cost
                  = SumOver([k \in running |-> obs[k].hourly_cost], running)

\* a snapshot over a stopped instance and a running one of a class the
\* table does not hold
C25_Witness ==
    /\ SnapshotBuilt
    /\ \E j, k \in 1..Len(cyc.instances) :
           /\ cyc.instances[j].state = "stopped"
           /\ cyc.instances[j].hourly_cost = Float(0)
           /\ cyc.instances[k].state = "running"
           /\ cyc.instances[k].instance_type = "x9.custom"
           /\ cyc.instances[k].hourly_cost = Rat(10, 100)
    /\ cyc.fleet_metrics[1].total_hourly_cost = Rat(10, 100)

\* the number of observations in a lifecycle state
InState(observations, state) ==
    Cardinality({k \in 1..Len(observations) : observations[k].state = state})

\* the sum of counts[state] over a set of states
RECURSIVE CountSum(_, _)
CountSum(counts, states) ==
    IF states = {} THEN 0
    ELSE LET state == CHOOSE x \in states : TRUE
         IN  counts[state] + CountSum(counts, states \ {state})

\* C26: in every snapshot a cycle builds the counts are non-negative, total
\* is the number of observations, running, stopped and pending are the
\* numbers of observations in those states, and their sum is at most total;
\* the per-state counts of get_instance_counts_by_state sum to the number of
\* instances.
C26_CountsMatchObservations ==
    /\ Len(cyc.fleet_metrics) = 1 =>
           LET snapshot == cyc.fleet_metrics[1]
               obs == snapshot.instance_metrics
           IN  /\ snapshot.total_instances \in Nat
               /\ snapshot.running_instances \in Nat
               /\ snapshot.stopped_instances \in Nat
               /\ snapshot.pending_instances \in Nat
               /\ snapshot.total_instances = Len(obs)
               /\ snapshot.running_instances = InState(obs, "running")
               /\ snapshot.stopped_instances = InState(obs, "stopped")
               /\ snapshot.pending_instances = InState(obs, "pending")
               /\ snapshot.running_instances + snapshot.stopped_instances
                      + snapshot.pending_instances <= snapshot.total_instances
    /\ DOMAIN cyc.state_counts # {} =>
           CountSum(cyc.state_counts, DOMAIN cyc.state_counts) = Len(cyc.instances)

\* a snapshot over a running instance and a terminated one: the three
\* counts sum to less than total
C26_Witness ==
    /\ SnapshotBuilt
    /\ cyc.fleet_metrics[1].total_instances = 2
    /\ cyc.fleet_metrics[1].running_instances = 1
    /\ cyc.fleet_metrics[1].stopped_instances = 0
    /\ cyc.fleet_metrics[1].pending_instances = 0
    /\ InState(cyc.instances, "terminated") = 1
    /\ CountSum(cyc.state_counts, DOMAIN cyc.state_counts) = 2

-----------------------------------------------------------------------------
(***************************************************************************)
(* Properties of overlapping invocations (checked under ConcurrentSpec)    *)
(***************************************************************************)
\* the MetricData of the writes the sink holds from invocation i, in order
StoreOf(i) ==
    LET own == SelectSeq(con.store, LAMBDA write : write.cycle = i)
    IN  [k \in 1..Len(own) |-> own[k].MetricData]

\* what invocation state w holds is made of the responses to its own
\* requests: its observations are the instances its inventory pages held,
\* its snapshot is the aggregate of its observations, and the points it
\* has written are the leading points of aggregate on its snapshot
OwnResponsesOnly(i, w) ==
    /\ Len(w.cyc.instances) <= Len(w.cyc.fleet)
    /\ \A k \in 1..Len(w.cyc.instances) :
          /\ w.cyc.instances[k].instance_id = w.cyc.fleet[k].InstanceId
          /\ w.cyc.instances[k].state = w.cyc.fleet[k].State
    /\ Len(w.cyc.fleet_metrics) = 1 =>
          /\ w.cyc.fleet_metrics[1] =
                 _aggregate_instance_metrics(w.cyc.instances, w.cyc.state_counts,
                                             w.cyc.compliance_data)
          /\ w.cyc.fleet_metrics[1].total_instances = Len(w.cyc.fleet)
    /\ StoreOf(i) = w.pub.sink
    /\ Len(w.pub.sink) > 0 =>
          /\ Len(w.cyc.fleet_metrics) = 1
          /\ LET points == aggregate(w.cyc.fleet_metrics[1],
                                     default_dimensions(environment, fleet_name),
                                     Timestamp)
                 written == Flatten(w.pub.sink)
             IN  /\ Len(written) <= Len(points)
                 /\ \A j \in 1..Len(written) :
                        written[j] = to_cloudwatch_format(points[j])

C27_OwnResponsesOnly == \A i \in 1..2 : OwnResponsesOnly(i, con.worlds[i])

\* a step is a step of one invocation alone and leaves the other as it is
C27_OneCycleSteps ==
    \E i \in 1..2 :
        /\ con'.worlds[i] \in CycleSteps(con.worlds[i])
        /\ con'.worlds[3 - i] = con.worlds[3 - i]

-----------------------------------------------------------------------------
(***************************************************************************)
(* Properties of the snapshot's construction (checked under MetricsSpec)   *)
(***************************************************************************)
WellFormed(snapshot) ==
    /\ snapshot.total_instances >= 0
    /\ snapshot.running_instances >= 0
    /\ snapshot.stopped_instances >= 0
    /\ snapshot.pending_instances >= 0
    /\ snapshot.compliant_instances >= 0
    /\ snapshot.non_compliant_instances >= 0

\* C28: a malformed snapshot input, for example one with negative counts,
\* is rejected where the snapshot is constructed and is never passed on to
\* the scoring functions or to aggregate: no aggregate call has read one
\* and returned points for it.
C28_MalformedRejected ==
    \A k \in 1..Len(agg.calls) :
        Len(agg.calls[k].metrics) > 0 => WellFormed(agg.calls[k].snapshot)

-----------------------------------------------------------------------------
(***************************************************************************)
(* Properties of the checks per instance (checked under ComplianceSpec)    *)
(***************************************************************************)
\* C29: once get_instance_compliance has seen a non-compliant finding for
\* an instance it performs no further checks for that instance: no page is
\* requested for an instance whose verdict is already NON_COMPLIANT.
C29_NoCheckAfterNonCompliant ==
    [][\A k \in 1..Len(cmp.instance_ids) :
          (k \in DOMAIN cmp'.requests /\ cmp'.requests[k] > cmp.requests[k])
              => cmp.compliance_map[k] # NON_COMPLIANT]_vars

-----------------------------------------------------------------------------
(***************************************************************************)
(* Properties of the rate limiter (checked under LimiterSpec)              *)
(***************************************************************************)
Admitted(n) == lim.calls[n].status_code = <<>>

\* the admitted calls of a key before call n that are younger than
\* window_seconds when the clock reads now
YoungAdmitted(key, n, now) ==
    {m \in 1..(n - 1) : /\ lim.calls[m].key = key
                        /\ Admitted(m)
                        /\ now - lim.calls[m].now < lim.window_seconds}

\* the last call of a key, 0 when there is none
LastCallOf(key) ==
    IF \E n \in 1..Len(lim.calls) : lim.calls[n].key = key
    THEN CHOOSE n \in 1..Len(lim.calls) :
             /\ lim.calls[n].key = key
             /\ \A m \in (n + 1)..Len(lim.calls) : lim.calls[m].key # key
    ELSE 0

\* C30: for every client key and every sequence of requests the limiter
\* admits at most max_requests requests of the key within any sliding
\* window of window_seconds; a request is rejected with 429 exactly when
\* max_requests admitted requests of its key are younger than
\* window_seconds; a rejected request is not recorded; requests of one key
\* never change the admission of another key.  A window is the time
\* (start, start + window_seconds].
C30_SlidingWindow ==
    /\ \A n \in 1..Len(lim.calls) :
          LET call == lim.calls[n]
              young == YoungAdmitted(call.key, n, call.now)
          IN  /\ call.status_code \in {<<>>, <<429>>}
              /\ Cardinality(young) <= lim.max_requests
              /\ call.status_code = <<429>> <=> Cardinality(young) = lim.max_requests
              /\ Cardinality(YoungAdmitted(call.key, n + 1, call.now)) <= lim.max_requests
    /\ \A n \in 1..Len(lim.calls) :
          \A start \in (0 - lim.window_seconds)..lim.clock :
              Cardinality({m \in 1..Len(lim.calls) :
                              /\ lim.calls[m].key = lim.calls[n].key
                              /\ Admitted(m)
                              /\ start < lim.calls[m].now
                              /\ lim.calls[m].now <= start + lim.window_seconds})
                 <= lim.max_requests
    /\ \A key \in DOMAIN lim._hits :
          LET last == LastCallOf(key)
              recorded == {lim._hits[key][j] : j \in 1..Len(lim._hits[key])}
          IN  /\ last > 0
              /\ recorded = {lim.calls[m].now :
                                m \in YoungAdmitted(key, last + 1, lim.calls[last].now)}
              /\ Len(lim._hits[key])
                    = Cardinality(YoungAdmitted(key, last + 1, lim.calls[last].now))

\* with max_requests = 1 and window_seconds = 2: the key of the API key is
\* admitted at 0 and rejected at 1, another key is admitted at 1, and the
\* first key is admitted again at 2, when its request of 0 has left the
\* window (the rejected one used no quota)
C30_Witness ==
    /\ lim.max_requests = 1
    /\ lim.window_seconds = 2
    /\ Len(lim.calls) = 4
    /\ lim.calls[1] = [key |-> <<"apikey", "k1">>, now |-> 0, status_code |-> <<>>]
    /\ lim.calls[2] = [key |-> <<"apikey", "k1">>, now |-> 1, status_code |-> <<429>>]
    /\ lim.calls[3] = [key |-> <<"ip", "10.0.0.1">>, now |-> 1, status_code |-> <<>>]
    /\ lim.calls[4] = [key |-> <<"apikey", "k1">>, now |-> 2, status_code |-> <<>>]


=============================================================================
